---- MODULE Spec2Model ----
(***************************************************************************)
(* Model of the briefing program (morning report in main.go, evening       *)
(* report in evening.go).                                                  *)
(*                                                                         *)
(* Representation of the Go values:                                        *)
(*   *float64        None (<<>>) or Some(v) (<<v>>)                        *)
(*   hours           integers in thousandths of an hour (7.5h = 7500)      *)
(*   HRV             integers in hundredths of a millisecond (20.01=2001)  *)
(*   dates           day numbers; a timestamp carries the day it names     *)
(*   warning string  the text before the ": %v" of the Sprintf, with the   *)
(*                   %s argument kept apart                                *)
(***************************************************************************)
EXTENDS Integers, Sequences, FiniteSets, TLC

VARIABLES b, eb, env, pc, calls, out

vars == <<b, eb, env, pc, calls, out>>

None == <<>>
Some(v) == <<v>>
IsSome(p) == p # <<>>
Val(p) == p[1]

(***************************************************************************)
(* Bounds of the classification inputs.                                    *)
(***************************************************************************)
MaxHours == 8
MaxHrvTens == 5
MaxEvents == 4
MaxCalls == 2
\* At most this many evening queries fail in one run.
MaxFailed == 2

\* The day the program runs on (time.Now()), as a day number.
Today == 20

\* Bounds of the inputs of the evening calculations: body weight (kg) and
\* height (cm), the distance of consumed from burned energy (tenths of a
\* kcal), and consumed protein (tenths of a gram).
MaxWeightKg == 80
MaxHeightCm == 190
MaxOffset == 520
MaxProtein == 1800

(***************************************************************************)
(* The morning report (MorningBriefing) as main() constructs it: every    *)
(* field holds Go's zero value.                                            *)
(***************************************************************************)
NoText == [text |-> "", arg |-> None]

ZeroSleep ==
  [TotalHours |-> None, DeepHours |-> None, REMHours |-> None, CoreHours |-> None,
   DataDate |-> None, IsCurrentDay |-> FALSE, DataAvailable |-> FALSE]

ZeroVitals ==
  [RestingHR |-> None, HRV |-> None, SpO2 |-> None, RespiratoryRate |-> None]

ZeroCalendar ==
  [MorningEvents |-> <<>>, AfternoonEvents |-> <<>>, MorningCount |-> 0,
   FirstEventTime |-> None]

ZeroMeds == [DueToday |-> <<>>, Overdue |-> <<>>, Completed |-> <<>>]

ZeroTraining ==
  [LastWorkout |-> None, DaysSinceLast |-> 0, RecentWorkouts |-> <<>>,
   WeeklyCount |-> 0]

ZeroClassification ==
  [SleepQuality |-> "", MorningLoad |-> "", RecoveryStatus |-> "",
   Recommendation |-> NoText]

NewMorningBriefing(today) ==
  [TargetDate |-> today, Sleep |-> ZeroSleep, Vitals |-> ZeroVitals,
   Calendar |-> ZeroCalendar, Meds |-> ZeroMeds, Training |-> ZeroTraining,
   Classification |-> ZeroClassification, Errors |-> <<>>]

(***************************************************************************)
(* classify (main.go): sleep quality.                                      *)
(***************************************************************************)
SleepFromHours_StrictGood(hours) ==
  IF hours > 7000 THEN "GOOD" ELSE IF hours >= 5000 THEN "OK" ELSE "POOR"

SleepFromHours(hours) ==
  IF hours >= 7000 THEN "GOOD" ELSE IF hours >= 5000 THEN "OK" ELSE "POOR"

DeepSleepDowngrade_TwoSteps(quality, deep) ==
  IF IsSome(deep) /\ Val(deep) < 1000
  THEN IF quality \in {"GOOD", "OK"} THEN "POOR" ELSE quality
  ELSE quality

DeepSleepDowngrade(quality, deep) ==
  IF IsSome(deep) /\ Val(deep) < 1000
  THEN CASE quality = "GOOD" -> "OK"
         [] quality = "OK" -> "POOR"
         [] OTHER -> quality
  ELSE quality

SleepQualityOf_NoStaleCheck(r) ==
  IF ~r.Sleep.DataAvailable
  THEN "UNKNOWN"
  ELSE IF IsSome(r.Sleep.TotalHours)
       THEN DeepSleepDowngrade(SleepFromHours(Val(r.Sleep.TotalHours)), r.Sleep.DeepHours)
       ELSE r.Classification.SleepQuality

SleepQualityOf(r) ==
  IF ~r.Sleep.DataAvailable \/ ~r.Sleep.IsCurrentDay
  THEN "UNKNOWN"
  ELSE IF IsSome(r.Sleep.TotalHours)
       THEN DeepSleepDowngrade(SleepFromHours(Val(r.Sleep.TotalHours)), r.Sleep.DeepHours)
       ELSE r.Classification.SleepQuality

(***************************************************************************)
(* classify: recovery status from HRV.                                     *)
(***************************************************************************)
RecoveryStatusOf_StrictPoor(hrv) ==
  IF ~IsSome(hrv) THEN "UNKNOWN"
  ELSE IF Val(hrv) < 2000 THEN "POOR"
  ELSE IF Val(hrv) < 4000 THEN "OK"
  ELSE "GOOD"

RecoveryStatusOf(hrv) ==
  IF ~IsSome(hrv) THEN "UNKNOWN"
  ELSE IF Val(hrv) <= 2000 THEN "POOR"
  ELSE IF Val(hrv) < 4000 THEN "OK"
  ELSE "GOOD"

(***************************************************************************)
(* classify: morning load from MorningCount.                               *)
(***************************************************************************)
MorningLoadOf_PackedAtTwo(count) ==
  IF count = 0 THEN "CLEAR" ELSE IF count < 2 THEN "LIGHT" ELSE "PACKED"

MorningLoadOf(count) ==
  IF count = 0 THEN "CLEAR" ELSE IF count <= 2 THEN "LIGHT" ELSE "PACKED"

(***************************************************************************)
(* classify: recommendation.  FormatF0 is fmt's %.0f on a value given in   *)
(* hundredths: nearest integer, an exact half going to the even neighbour. *)
(***************************************************************************)
FormatF0(h) ==
  LET q == h \div 100
      r == h % 100
  IN  IF r < 50 THEN q
      ELSE IF r > 50 THEN q + 1
      ELSE IF q % 2 = 0 THEN q ELSE q + 1

MsgPoorSleepPoorRecovery ==
  [text |-> "Poor sleep + poor recovery (low HRV). Take it very easy today, prioritize rest and recovery.",
   arg |-> None]
MsgLowHRV(hrv) ==
  [text |-> "HRV is low (%.0fms) indicating poor recovery. Consider lighter activity today.",
   arg |-> Some(FormatF0(hrv))]
MsgPacked ==
  [text |-> "Rough night + packed morning. Prioritize must-dos, defer what you can. Power through essentials only.",
   arg |-> None]
MsgLight ==
  [text |-> "Rough night but light morning. Ease in, handle the few things, then reassess energy.",
   arg |-> None]
MsgClear ==
  [text |-> "Rough night, clear morning. Take it slow, no rush. Recovery day vibes.",
   arg |-> None]
MsgFocused ==
  [text |-> "Decent sleep, busy morning. You've got this, stay focused.", arg |-> None]
MsgAttack == [text |-> "Well rested. Attack the day.", arg |-> None]
MsgUnavailable ==
  [text |-> "Sleep data unavailable. Check energy levels and adjust accordingly.",
   arg |-> None]

LoadRecommendation_GoodFirst(sleep, load) ==
  CASE sleep = "GOOD" -> MsgAttack
    [] sleep = "POOR" /\ load = "PACKED" -> MsgPacked
    [] sleep = "POOR" /\ load = "LIGHT" -> MsgLight
    [] sleep = "POOR" -> MsgClear
    [] sleep = "OK" -> MsgFocused
    [] OTHER -> MsgUnavailable

LoadRecommendation(sleep, load) ==
  IF sleep = "POOR" /\ load = "PACKED" THEN MsgPacked
  ELSE IF sleep = "POOR" /\ load = "LIGHT" THEN MsgLight
  ELSE IF sleep = "POOR" /\ load = "CLEAR" THEN MsgClear
  ELSE IF sleep = "OK" /\ load = "PACKED" THEN MsgFocused
  ELSE IF sleep = "GOOD" THEN MsgAttack
  ELSE MsgUnavailable

RecommendationOf_SleepFirst(sleep, load, recovery, hrv) ==
  IF sleep = "POOR" /\ load = "PACKED" THEN MsgPacked
  ELSE IF recovery = "POOR" /\ IsSome(hrv)
       THEN IF sleep = "POOR" THEN MsgPoorSleepPoorRecovery ELSE MsgLowHRV(Val(hrv))
       ELSE LoadRecommendation(sleep, load)

RecommendationOf(sleep, load, recovery, hrv) ==
  IF recovery = "POOR" /\ IsSome(hrv)
  THEN IF sleep = "POOR" THEN MsgPoorSleepPoorRecovery ELSE MsgLowHRV(Val(hrv))
  ELSE LoadRecommendation(sleep, load)

\* A classify that also records a warning when it has no sleep data.
classify_WarnsOnUnknown(r) ==
  LET sleep == SleepQualityOf(r)
      recovery == RecoveryStatusOf(r.Vitals.HRV)
      load == MorningLoadOf(r.Calendar.MorningCount)
      r1 == IF sleep = "UNKNOWN" THEN [r EXCEPT !.Errors = Append(@, NoText)] ELSE r
  IN  [r1 EXCEPT !.Classification =
         [SleepQuality |-> sleep, MorningLoad |-> load, RecoveryStatus |-> recovery,
          Recommendation |-> RecommendationOf(sleep, load, recovery, r.Vitals.HRV)]]

classify(r) ==
  LET sleep == SleepQualityOf(r)
      recovery == RecoveryStatusOf(r.Vitals.HRV)
      load == MorningLoadOf(r.Calendar.MorningCount)
  IN  [r EXCEPT !.Classification =
         [SleepQuality |-> sleep, MorningLoad |-> load, RecoveryStatus |-> recovery,
          Recommendation |-> RecommendationOf(sleep, load, recovery, r.Vitals.HRV)]]

(***************************************************************************)
(* Warnings appended to Errors: the Sprintf text up to ": %v", and its %s  *)
(* argument (the calendar source tag) when it has one.                     *)
(***************************************************************************)
Warning(text) == [text |-> text, arg |-> None]
WarningFor(text, source) == [text |-> text, arg |-> Some(source)]
AddError(r, w) == [r EXCEPT !.Errors = Append(@, w)]

(***************************************************************************)
(* getHealthData (main.go): the summary provider, `health-ingest summary`. *)
(* e.summary.status is "ok", "cmd_error" (cmd.Output failed) or            *)
(* "parse_error" (json.Unmarshal failed); e.summary.stats is LatestStats,  *)
(* each key absent (None) or Some([Value, Timestamp]).                     *)
(***************************************************************************)
yesterday_TwoDaysBack(today) == today - 2

yesterday(today) == today - 1

TimestampContains(ts, day) == ts = day

ApplyLatestStats(r, stats, today) ==
  LET sleep ==
        IF IsSome(stats.sleep_total)
        THEN [r.Sleep EXCEPT
                !.DataAvailable = TRUE,
                !.TotalHours = Some(Val(stats.sleep_total).Value),
                !.DataDate = Some(Val(stats.sleep_total).Timestamp),
                !.IsCurrentDay =
                   IF \/ TimestampContains(Val(stats.sleep_total).Timestamp, today)
                      \/ TimestampContains(Val(stats.sleep_total).Timestamp, yesterday(today))
                   THEN TRUE ELSE @]
        ELSE r.Sleep
      sleep2 ==
        IF IsSome(stats.sleep_deep)
        THEN [sleep EXCEPT !.DeepHours = Some(Val(stats.sleep_deep).Value)]
        ELSE sleep
      sleep3 ==
        IF IsSome(stats.sleep_rem)
        THEN [sleep2 EXCEPT !.REMHours = Some(Val(stats.sleep_rem).Value)]
        ELSE sleep2
      v1 ==
        IF IsSome(stats.resting_heart_rate)
        THEN [r.Vitals EXCEPT !.RestingHR = Some(Val(stats.resting_heart_rate).Value)]
        ELSE r.Vitals
      v2 ==
        IF IsSome(stats.heart_rate_variability)
        THEN [v1 EXCEPT !.HRV = Some(Val(stats.heart_rate_variability).Value)]
        ELSE v1
      v3 ==
        IF IsSome(stats.blood_oxygen_saturation)
        THEN [v2 EXCEPT !.SpO2 = Some(Val(stats.blood_oxygen_saturation).Value)]
        ELSE v2
  IN  [r EXCEPT !.Sleep = sleep3, !.Vitals = v3]

getHealthData(r, e) ==
  IF e.summary.status = "cmd_error" THEN AddError(r, Warning("health-ingest error"))
  ELSE IF e.summary.status = "parse_error"
       THEN AddError(r, Warning("health JSON parse error"))
       ELSE ApplyLatestStats(r, e.summary.stats, e.today)

(***************************************************************************)
(* getHealthDataFromSQLite (main.go): the metrics store.  e.sqlite.open    *)
(* is "ok" or "error"; each query has err (the query returned an error)    *)
(* and the value it yields otherwise (None for SQL NULL / no row).         *)
(***************************************************************************)
ApplyHRVQuery_EraseOnNull(r, q) ==
  IF q.err THEN AddError(r, Warning("HRV query error"))
  ELSE [r EXCEPT !.Vitals.HRV = q.val]

ApplyHRVQuery(r, q) ==
  IF q.err THEN AddError(r, Warning("HRV query error"))
  ELSE IF IsSome(q.val) THEN [r EXCEPT !.Vitals.HRV = q.val] ELSE r

ApplySleepStages(r, q) ==
  IF q.err THEN AddError(r, Warning("sleep stages query error"))
  ELSE [r EXCEPT
          !.Sleep.DeepHours = IF IsSome(q.deep) THEN q.deep ELSE @,
          !.Sleep.REMHours = IF IsSome(q.rem) THEN q.rem ELSE @,
          !.Sleep.CoreHours = IF IsSome(q.core) THEN q.core ELSE @]

ApplyRespiratoryRate(r, q) ==
  IF q.err THEN AddError(r, Warning("respiratory rate query error"))
  ELSE IF IsSome(q.val) THEN [r EXCEPT !.Vitals.RespiratoryRate = q.val] ELSE r

getHealthDataFromSQLite(r, e) ==
  IF e.sqlite.open = "error" THEN AddError(r, Warning("sqlite open error"))
  ELSE ApplyRespiratoryRate(
         ApplySleepStages(ApplyHRVQuery(r, e.sqlite.hrv), e.sqlite.stages),
         e.sqlite.rr)

(***************************************************************************)
(* getCalendarEvents / getCalendarData (main.go).  A provider event is     *)
(* [start, summary]; start is None for an all-day event (empty dateTime),  *)
(* else Some([day, hour, minute, rfc3339]) where day is the date prefix of *)
(* the dateTime string and rfc3339 says whether time.Parse accepts it.     *)
(***************************************************************************)
CalendarEventOf(ev, source) ==
  [Time |-> <<Val(ev.start).hour, Val(ev.start).minute>>,
   Summary |-> ev.summary, Source |-> source]

\* The bucket chosen by `if hour < 12 ... else if hour < 18`.
BucketOf_NoonIsMorning(hour) ==
  IF hour <= 12 THEN "morning" ELSE IF hour < 18 THEN "afternoon" ELSE "none"

BucketOf(hour) ==
  IF hour < 12 THEN "morning" ELSE IF hour < 18 THEN "afternoon" ELSE "none"

RECURSIVE BucketEvents(_, _, _, _)
BucketEvents(cal, events, today, source) ==
  IF events = <<>> THEN cal
  ELSE LET ev == Head(events)
           rest == Tail(events)
       IN  IF ~IsSome(ev.start) THEN BucketEvents(cal, rest, today, source)
           ELSE IF Val(ev.start).day # today THEN BucketEvents(cal, rest, today, source)
           ELSE IF ~Val(ev.start).rfc3339 THEN BucketEvents(cal, rest, today, source)
           ELSE IF BucketOf(Val(ev.start).hour) = "morning"
                THEN BucketEvents(
                       [cal EXCEPT !.MorningEvents = Append(@, CalendarEventOf(ev, source))],
                       rest, today, source)
           ELSE IF BucketOf(Val(ev.start).hour) = "afternoon"
                THEN BucketEvents(
                       [cal EXCEPT !.AfternoonEvents = Append(@, CalendarEventOf(ev, source))],
                       rest, today, source)
           ELSE BucketEvents(cal, rest, today, source)

getCalendarEvents_DropEarlier(r, today, resp, source) ==
  IF resp.status = "cmd_error"
  THEN [r EXCEPT !.Errors = <<WarningFor("calendar error (%s)", source)>>]
  ELSE IF resp.status = "parse_error"
       THEN [r EXCEPT !.Errors = <<WarningFor("calendar JSON parse error (%s)", source)>>]
       ELSE [r EXCEPT !.Calendar = BucketEvents(@, resp.events, today, source)]

getCalendarEvents(r, today, resp, source) ==
  IF resp.status = "cmd_error"
  THEN AddError(r, WarningFor("calendar error (%s)", source))
  ELSE IF resp.status = "parse_error"
       THEN AddError(r, WarningFor("calendar JSON parse error (%s)", source))
       ELSE [r EXCEPT !.Calendar = BucketEvents(@, resp.events, today, source)]

\* The work account queried before the personal one.
getCalendarData_WorkFirst(r, e) ==
  LET r2 == getCalendarEvents(
              getCalendarEvents(r, e.today, e.calendar.work, "work"),
              e.today, e.calendar.personal, "personal")
  IN  [r2 EXCEPT
         !.Calendar.MorningCount = Len(r2.Calendar.MorningEvents),
         !.Calendar.FirstEventTime =
            IF Len(r2.Calendar.MorningEvents) > 0
            THEN Some(r2.Calendar.MorningEvents[1].Time) ELSE @]

getCalendarData(r, e) ==
  LET r2 == getCalendarEvents(
              getCalendarEvents(r, e.today, e.calendar.personal, "personal"),
              e.today, e.calendar.work, "work")
  IN  [r2 EXCEPT
         !.Calendar.MorningCount = Len(r2.Calendar.MorningEvents),
         !.Calendar.FirstEventTime =
            IF Len(r2.Calendar.MorningEvents) > 0
            THEN Some(r2.Calendar.MorningEvents[1].Time) ELSE @]

(***************************************************************************)
(* getMedsData (main.go).  A task is [content, labels, is_completed, due]; *)
(* due is None or Some([date, datetime]), datetime None (empty or          *)
(* unparsable) or Some(<<hour, minute>>).                                  *)
(***************************************************************************)
MedLabels == {"PillMeds", "Syringe"}  \* the two emoji labels of the source

IsMed(task) == \E i \in 1..Len(task.labels) : task.labels[i] \in MedLabels

MedTaskOf(task) ==
  [Name |-> task.content,
   DueDate |-> IF IsSome(task.due) THEN Some(Val(task.due).date) ELSE None,
   DueTime |-> IF IsSome(task.due) THEN Val(task.due).datetime ELSE None]

\* The list chosen by `if task.IsCompleted ... else if task.Due != nil &&
\* task.Due.Date < today ... else`.
MedStatusOf_OverdueFirst(task, today) ==
  IF IsSome(task.due) /\ Val(task.due).date < today THEN "overdue"
  ELSE IF task.is_completed THEN "completed"
  ELSE "due_today"

MedStatusOf(task, today) ==
  IF task.is_completed THEN "completed"
  ELSE IF IsSome(task.due) /\ Val(task.due).date < today THEN "overdue"
  ELSE "due_today"

RECURSIVE SortMeds(_, _, _)
SortMeds(meds, tasks, today) ==
  IF tasks = <<>> THEN meds
  ELSE LET task == Head(tasks)
           rest == Tail(tasks)
       IN  IF ~IsMed(task) THEN SortMeds(meds, rest, today)
           ELSE IF MedStatusOf(task, today) = "completed"
                THEN SortMeds([meds EXCEPT !.Completed = Append(@, MedTaskOf(task))],
                              rest, today)
           ELSE IF MedStatusOf(task, today) = "overdue"
                THEN SortMeds([meds EXCEPT !.Overdue = Append(@, MedTaskOf(task))],
                              rest, today)
           ELSE SortMeds([meds EXCEPT !.DueToday = Append(@, MedTaskOf(task))],
                         rest, today)

getMedsData_AbortAfterError(r, e) ==
  IF r.Errors # <<>> THEN r
  ELSE IF e.todoist.status = "cmd_error" THEN AddError(r, Warning("todoist error"))
  ELSE IF e.todoist.status = "parse_error"
       THEN AddError(r, Warning("todoist JSON parse error"))
       ELSE [r EXCEPT !.Meds = SortMeds(@, e.todoist.results, e.today)]

getMedsData(r, e) ==
  IF e.todoist.status = "cmd_error" THEN AddError(r, Warning("todoist error"))
  ELSE IF e.todoist.status = "parse_error"
       THEN AddError(r, Warning("todoist JSON parse error"))
       ELSE [r EXCEPT !.Meds = SortMeds(@, e.todoist.results, e.today)]

(***************************************************************************)
(* getTrainingData (main.go).  A workout is [id, title, start, duration,   *)
(* exercises]; start is [day, hour, rfc3339]: the date prefix of the       *)
(* startTime string, its hour of day, and whether time.Parse accepts it.   *)
(* Instants are counted in hours (day d starts at hour 24*d); e.now is     *)
(* time.Now().                                                             *)
(***************************************************************************)
TruncDiv(a, d) == IF a >= 0 THEN a \div d ELSE -((-a) \div d)

Instant(start) == 24 * start.day + start.hour

WorkoutSummaryOf(w) ==
  [ID |-> w.id, Title |-> w.title, Date |-> w.start.day,
   Duration |-> w.duration, Exercises |-> w.exercises]

RECURSIVE ScanWorkouts(_, _, _, _, _)
ScanWorkouts(tr, workouts, i, weeklyCount, now) ==
  IF i > Len(workouts) THEN [tr EXCEPT !.WeeklyCount = weeklyCount]
  ELSE LET w == workouts[i]
       IN  IF ~w.start.rfc3339 THEN ScanWorkouts(tr, workouts, i + 1, weeklyCount, now)
           ELSE LET tr1 == IF i = 1
                           THEN [tr EXCEPT
                                   !.LastWorkout = Some(WorkoutSummaryOf(w)),
                                   !.DaysSinceLast = TruncDiv(now - Instant(w.start), 24)]
                           ELSE tr
                    wc == IF Instant(w.start) > now - 7 * 24
                          THEN weeklyCount + 1 ELSE weeklyCount
                IN  ScanWorkouts(
                      [tr1 EXCEPT !.RecentWorkouts = Append(@, WorkoutSummaryOf(w))],
                      workouts, i + 1, wc, now)

\* A fetch that gives up when an earlier step has already recorded a warning.
getTrainingData_OnlyIfQuiet(r, e) ==
  IF r.Errors # <<>> THEN r
  ELSE IF e.hevy.status = "cmd_error" THEN AddError(r, Warning("hevy error"))
  ELSE IF e.hevy.status = "parse_error" THEN AddError(r, Warning("hevy JSON parse error"))
  ELSE IF Len(e.hevy.workouts) = 0 THEN r
  ELSE [r EXCEPT !.Training = ScanWorkouts(@, e.hevy.workouts, 1, 0, e.now)]

getTrainingData(r, e) ==
  IF e.hevy.status = "cmd_error" THEN AddError(r, Warning("hevy error"))
  ELSE IF e.hevy.status = "parse_error" THEN AddError(r, Warning("hevy JSON parse error"))
  ELSE IF Len(e.hevy.workouts) = 0 THEN r
  ELSE [r EXCEPT !.Training = ScanWorkouts(@, e.hevy.workouts, 1, 0, e.now)]

(***************************************************************************)
(* evening.go: user constants and the pure calculations.  Energy is in     *)
(* tenths of a kcal and protein in tenths of a gram where the Go value is  *)
(* a float64; BMRKcal, DeficitOrSurplusKcal and TargetG are Go ints.       *)
(***************************************************************************)
UserAge == 41
UserWeightKg == 73
UserHeightCm == 177
UserIsMale == TRUE
UserBMRKcal == 1636
UserProteinTargetG == 152

\* int(x + 0.5) for x given in tenths: the conversion truncates toward zero.
IntOfPlusHalf(x10) == TruncDiv(x10 + 5, 10)

\* CalculateBMR on whole kilograms and centimetres: bmr4 is the float64 bmr
\* in quarters of a kcal (6.25 * heightCm is a multiple of 0.25).
CalculateBMR_NoHalf(weightKg, heightCm, age, isMale) ==
  LET bmr4 == 40 * weightKg + 25 * heightCm - 20 * age
               + (IF isMale THEN 20 ELSE -644)
  IN  TruncDiv(bmr4, 4)

CalculateBMR(weightKg, heightCm, age, isMale) ==
  LET bmr4 == 40 * weightKg + 25 * heightCm - 20 * age
               + (IF isMale THEN 20 ELSE -644)
  IN  TruncDiv(bmr4 + 2, 4)

CalculateEnergyBalance_DeficitAtFifty(bmr, activeEnergy, consumedEnergy) ==
  LET totalBurned == 10 * bmr + activeEnergy
      balance == IntOfPlusHalf(consumedEnergy - totalBurned)
  IN  [balance |-> balance,
       status |-> IF balance <= -50 THEN "deficit"
                  ELSE IF balance > 50 THEN "surplus" ELSE "maintenance"]

CalculateEnergyBalance(bmr, activeEnergy, consumedEnergy) ==
  LET totalBurned == 10 * bmr + activeEnergy
      balance == IntOfPlusHalf(consumedEnergy - totalBurned)
  IN  [balance |-> balance,
       status |-> IF balance < -50 THEN "deficit"
                  ELSE IF balance > 50 THEN "surplus" ELSE "maintenance"]

CalculateProteinStatus_StrictlyAbove(consumed, target) ==
  [remaining |-> IF target - consumed < 0 THEN 0 ELSE target - consumed,
   onTrack |-> 100 * consumed > 95 * target]

\* consumed >= target * 0.95, both sides in tenths of a gram times 100.
CalculateProteinStatus(consumed, target) ==
  [remaining |-> IF target - consumed < 0 THEN 0 ELSE target - consumed,
   onTrack |-> 100 * consumed >= 95 * target]

\* ParseMode returns (mode, error): err says the error is non-nil.
ParseMode_EveningFirst(morning, evening) ==
  IF evening THEN [mode |-> "evening", err |-> FALSE]
  ELSE [mode |-> "morning", err |-> FALSE]

ParseMode(morning, evening) ==
  IF morning /\ evening THEN [mode |-> "", err |-> TRUE]
  ELSE IF evening THEN [mode |-> "evening", err |-> FALSE]
  ELSE [mode |-> "morning", err |-> FALSE]

(***************************************************************************)
(* The evening report as RunEveningBriefing constructs it.                 *)
(***************************************************************************)
NewEveningBriefing(today) ==
  [Mode |-> "evening", TargetDate |-> today,
   Energy |-> [DeficitOrSurplusKcal |-> 0, Status |-> "", BMRKcal |-> UserBMRKcal,
               ActiveKcal |-> 0, TotalBurnedKcal |-> 0, ConsumedKcal |-> 0],
   Protein |-> [ConsumedG |-> 0, TargetG |-> UserProteinTargetG, RemainingG |-> 0,
                OnTrack |-> FALSE],
   Activity |-> [Steps |-> 0, Workout |-> None, StandHours |-> 0],
   Recovery |-> [HRVMS |-> 0, HRVYesterdayMS |-> 0, RestingHRBPM |-> 0,
                 SleepLastNight |-> [TotalHrs |-> 0, DeepHrs |-> 0]],
   Protocols |-> [Completed |-> <<>>, Missed |-> <<>>],
   Tomorrow |-> [FirstEvent |-> None, WorkoutScheduled |-> FALSE, MedsDue |-> <<>>],
   Errors |-> <<>>]

(***************************************************************************)
(* getEveningHealthData (evening.go).  e.sqlite.open is "ok" or "error";   *)
(* a queryDayTotal result is [err, val]; a queryAverageHRV or              *)
(* queryLatestValue result is [err, val] with val None or Some(v).         *)
(***************************************************************************)
ApplyEnergy(r, q) ==
  LET r1 == IF q.active_energy.err
            THEN AddError(r, Warning("active_energy query error"))
            ELSE [r EXCEPT !.Energy.ActiveKcal = q.active_energy.val]
      r2 == IF q.dietary_energy.err
            THEN AddError(r1, Warning("dietary_energy query error"))
            ELSE [r1 EXCEPT !.Energy.ConsumedKcal = q.dietary_energy.val]
      bal == CalculateEnergyBalance(r2.Energy.BMRKcal, r2.Energy.ActiveKcal,
                                    r2.Energy.ConsumedKcal)
  IN  [r2 EXCEPT
         !.Energy.TotalBurnedKcal = 10 * r2.Energy.BMRKcal + r2.Energy.ActiveKcal,
         !.Energy.DeficitOrSurplusKcal = bal.balance,
         !.Energy.Status = bal.status]

ApplyProtein(r, q) ==
  IF q.protein.err THEN AddError(r, Warning("protein query error"))
  ELSE LET st == CalculateProteinStatus(q.protein.val, 10 * r.Protein.TargetG)
       IN  [r EXCEPT !.Protein.ConsumedG = q.protein.val,
                     !.Protein.RemainingG = st.remaining,
                     !.Protein.OnTrack = st.onTrack]

ApplyActivity(r, q) ==
  LET r1 == IF q.steps.err THEN AddError(r, Warning("steps query error"))
            ELSE [r EXCEPT !.Activity.Steps = q.steps.val]
  IN  IF q.stand_hours.err THEN AddError(r1, Warning("stand_hours query error"))
      ELSE [r1 EXCEPT !.Activity.StandHours = q.stand_hours.val]

Got(q) == ~q.err /\ IsSome(q.val)

ApplyRecovery(r, q) ==
  [r EXCEPT
     !.Recovery.HRVMS = IF Got(q.hrv_today) THEN Val(q.hrv_today.val) ELSE @,
     !.Recovery.HRVYesterdayMS =
        IF Got(q.hrv_yesterday) THEN Val(q.hrv_yesterday.val) ELSE @,
     !.Recovery.RestingHRBPM = IF Got(q.resting_hr) THEN Val(q.resting_hr.val) ELSE @,
     !.Recovery.SleepLastNight.TotalHrs =
        IF Got(q.sleep_total) THEN Val(q.sleep_total.val) ELSE @,
     !.Recovery.SleepLastNight.DeepHrs =
        IF Got(q.sleep_deep) THEN Val(q.sleep_deep.val) ELSE @]

getEveningHealthData(r, e) ==
  IF e.sqlite.open = "error" THEN AddError(r, Warning("sqlite open error"))
  ELSE ApplyRecovery(ApplyActivity(ApplyProtein(ApplyEnergy(r, e.sqlite), e.sqlite),
                                   e.sqlite),
                     e.sqlite)

(***************************************************************************)
(* getEveningWorkoutData (evening.go).                                     *)
(***************************************************************************)
NotDone == Some([Done |-> FALSE, Title |-> "", Duration |-> ""])

RECURSIVE TodaysWorkout(_, _)
TodaysWorkout(workouts, today) ==
  IF workouts = <<>> THEN NotDone
  ELSE IF Head(workouts).start.day = today
       THEN Some([Done |-> TRUE, Title |-> Head(workouts).title,
                  Duration |-> Head(workouts).duration])
       ELSE TodaysWorkout(Tail(workouts), today)

getEveningWorkoutData(r, e) ==
  IF e.hevy.status = "cmd_error"
  THEN [AddError(r, Warning("hevy error")) EXCEPT !.Activity.Workout = NotDone]
  ELSE IF e.hevy.status = "parse_error"
       THEN [AddError(r, Warning("hevy JSON parse error")) EXCEPT
               !.Activity.Workout = NotDone]
       ELSE [r EXCEPT !.Activity.Workout = TodaysWorkout(e.hevy.workouts, e.today)]

(***************************************************************************)
(* getEveningProtocolData (evening.go).                                    *)
(***************************************************************************)
RECURSIVE SortProtocols(_, _, _)
SortProtocols(pr, tasks, today) ==
  IF tasks = <<>> THEN pr
  ELSE LET task == Head(tasks)
           rest == Tail(tasks)
       IN  IF ~IsMed(task) THEN SortProtocols(pr, rest, today)
           ELSE IF task.is_completed
                THEN SortProtocols([pr EXCEPT !.Completed = Append(@, task.content)],
                                   rest, today)
           ELSE IF IsSome(task.due) /\ Val(task.due).date <= today
                THEN SortProtocols([pr EXCEPT !.Missed = Append(@, task.content)],
                                   rest, today)
           ELSE SortProtocols(pr, rest, today)

getEveningProtocolData(r, e) ==
  IF e.todoist.status = "cmd_error" THEN AddError(r, Warning("todoist error"))
  ELSE IF e.todoist.status = "parse_error"
       THEN AddError(r, Warning("todoist JSON parse error"))
       ELSE [r EXCEPT !.Protocols = SortProtocols(@, e.todoist.results, e.today)]

(***************************************************************************)
(* getTomorrowData (evening.go).  Calendar summaries are sequences of      *)
(* one-character strings so that ToLower and Contains are computed.        *)
(***************************************************************************)
addDays(date, days) == date + days

UpperCase ==
  <<"A", "B", "C", "D", "E", "F", "G", "H", "I", "J", "K", "L", "M",
    "N", "O", "P", "Q", "R", "S", "T", "U", "V", "W", "X", "Y", "Z">>
LowerCase ==
  <<"a", "b", "c", "d", "e", "f", "g", "h", "i", "j", "k", "l", "m",
    "n", "o", "p", "q", "r", "s", "t", "u", "v", "w", "x", "y", "z">>

ToLowerChar(c) ==
  IF \E i \in 1..Len(UpperCase) : UpperCase[i] = c
  THEN LowerCase[CHOOSE i \in 1..Len(UpperCase) : UpperCase[i] = c]
  ELSE c

ToLower(str) == [i \in 1..Len(str) |-> ToLowerChar(str[i])]

Contains(str, sub) ==
  \E i \in 0..(Len(str) - Len(sub)) : SubSeq(str, i + 1, i + Len(sub)) = sub

WorkoutKeywords ==
  {<<"w", "o", "r", "k", "o", "u", "t">>, <<"g", "y", "m">>,
   <<"t", "r", "a", "i", "n", "i", "n", "g">>, <<"j", "e", "s", "p", "e", "r">>}

IsWorkoutSummary_CaseSensitive(summary) ==
  \E kw \in WorkoutKeywords : Contains(summary, kw)

IsWorkoutSummary(summary) ==
  \E kw \in WorkoutKeywords : Contains(ToLower(summary), kw)

\* parsedTime within the day, in minutes; all events kept carry the same date.
ParsedTime(ev) == 60 * ev.Time[1] + ev.Time[2]

RECURSIVE EventsForDate(_, _)
EventsForDate(events, date) ==
  IF events = <<>> THEN <<>>
  ELSE LET ev == Head(events)
           rest == EventsForDate(Tail(events), date)
       IN  IF ~IsSome(ev.start) THEN rest
           ELSE IF Val(ev.start).day # date THEN rest
           ELSE IF ~Val(ev.start).rfc3339 THEN rest
           ELSE <<[Time |-> <<Val(ev.start).hour, Val(ev.start).minute>>,
                   Summary |-> ev.summary]>> \o rest

getCalendarEventsForDate(resp, date) ==
  IF resp.status # "ok" THEN <<>> ELSE EventsForDate(resp.events, date)

\* time.Time.Before
Before_OrEqual(t, u) == t <= u

Before(t, u) == t < u

RECURSIVE ScanTomorrow(_, _, _)
ScanTomorrow(tm, events, first) ==
  IF events = <<>> THEN [tm EXCEPT !.FirstEvent = first]
  ELSE LET ev == Head(events)
           first1 == IF ~IsSome(first) \/ Before(ParsedTime(ev), ParsedTime(Val(first)))
                     THEN Some(ev) ELSE first
           tm1 == IF IsWorkoutSummary(ev.Summary)
                  THEN [tm EXCEPT !.WorkoutScheduled = TRUE] ELSE tm
       IN  ScanTomorrow(tm1, Tail(events), first1)

getTomorrowCalendar(r, e, tomorrow) ==
  LET events == getCalendarEventsForDate(e.calendar.personal, tomorrow)
                  \o getCalendarEventsForDate(e.calendar.work, tomorrow)
  IN  IF Len(events) = 0 THEN r
      ELSE [r EXCEPT !.Tomorrow = ScanTomorrow(@, events, None)]

RECURSIVE MedNames(_)
MedNames(tasks) ==
  IF tasks = <<>> THEN <<>>
  ELSE IF IsMed(Head(tasks)) THEN <<Head(tasks).content>> \o MedNames(Tail(tasks))
       ELSE MedNames(Tail(tasks))

getTomorrowMeds(r, e, tomorrow) ==
  IF e.filter.status # "ok" THEN r
  ELSE [r EXCEPT !.Tomorrow.MedsDue = @ \o MedNames(e.filter.results)]

getTomorrowData(r, e) ==
  getTomorrowMeds(getTomorrowCalendar(r, e, addDays(e.today, 1)), e,
                  addDays(e.today, 1))

(***************************************************************************)
(* What the external sources answer.  A response keeps its payload also    *)
(* when the query fails, so that a run can be compared with the run in     *)
(* which the same sources all succeed.                                     *)
(***************************************************************************)
Stat(v, day) == Some([Value |-> v, Timestamp |-> day])

SummaryStatsPool ==
  {[sleep_total |-> st,
    sleep_deep |-> IF rich THEN Stat(500, Today) ELSE None,
    sleep_rem |-> IF rich THEN Stat(1800, Today) ELSE None,
    resting_heart_rate |-> Stat(52, Today),
    heart_rate_variability |-> IF rich THEN Stat(1500, Today) ELSE None,
    blood_oxygen_saturation |-> Stat(98, Today)] :
     st \in {None, Stat(7500, Today), Stat(4500, Today - 2)},
     rich \in BOOLEAN}
  \cup
  {[sleep_total |-> st, sleep_deep |-> None, sleep_rem |-> None,
    resting_heart_rate |-> Stat(52, Today), heart_rate_variability |-> None,
    blood_oxygen_saturation |-> Stat(98, Today)] :
     st \in {Stat(6200, Today - 1), Stat(8000, Today + 1)}}

MorningSqlitePool ==
  {[hrv |-> hv, deep |-> dp, rem |-> IF dp = None THEN None ELSE Some(2000),
    core |-> Some(3500), rr |-> IF hv = None THEN None ELSE Some(14)] :
     hv \in {None, Some(3000)}, dp \in {None, Some(1200)}}

Ev(day, hour, minute, ok, summary) ==
  [start |-> Some([day |-> day, hour |-> hour, minute |-> minute, rfc3339 |-> ok]),
   summary |-> summary]
AllDay(summary) == [start |-> None, summary |-> summary]

PersonalEvents ==
  <<AllDay("Birthday"), Ev(Today, 9, 30, TRUE, "Standup"),
    Ev(Today, 14, 0, TRUE, "Dentist"), Ev(Today + 1, 8, 0, TRUE, "Flight"),
    Ev(Today, 17, 45, TRUE, "Pickup"), Ev(Today, 18, 0, TRUE, "Dinner")>>
WorkEvents ==
  <<Ev(Today, 8, 0, TRUE, "Planning"), Ev(Today, 10, 0, FALSE, "Broken"),
    Ev(Today, 11, 15, TRUE, "Review"), Ev(Today, 12, 0, TRUE, "Lunch")>>

Task(content, labels, done, due) ==
  [content |-> content, labels |-> labels, is_completed |-> done, due |-> due]
Due(date, datetime) == Some([date |-> date, datetime |-> datetime])

TodayTasks ==
  <<Task("Creatine", <<"PillMeds">>, TRUE, Due(Today, None)),
    Task("Vitamin D", <<"Health", "PillMeds">>, FALSE, Due(Today - 1, None)),
    Task("Injection", <<"Syringe">>, FALSE, Due(Today, Some(<<8, 0>>))),
    Task("Email", <<"Work">>, FALSE, Due(Today, None)),
    Task("Magnesium", <<"PillMeds">>, FALSE, None),
    Task("Fish oil", <<"PillMeds">>, TRUE, Due(Today - 2, None)),
    Task("Taxes", <<"Admin">>, FALSE, Due(Today - 3, None)),
    Task("Zinc", <<"PillMeds">>, FALSE, Due(Today + 1, None))>>

Workout(id, title, day, hour, ok) ==
  [id |-> id, title |-> title,
   start |-> [day |-> day, hour |-> hour, rfc3339 |-> ok],
   duration |-> "1h", exercises |-> <<"Squat", "Row">>]

RecentWorkouts ==
  <<Workout("w3", "Legs", Today - 1, 18, TRUE),
    Workout("w2", "Push", Today - 3, 7, TRUE),
    Workout("w1", "Pull", Today - 9, 7, TRUE)>>

MorningSources ==
  {"summary", "sqlite_open", "hrv_query", "stages_query", "rr_query",
   "calendar_personal", "calendar_work", "todoist", "hevy"}

FailKinds == {"cmd_error", "parse_error"}

StatusIn(F, kind, source) == IF source \in F THEN kind ELSE "ok"

\* A query of the metrics store is issued, and can fail, only once it is open.
Issued(F) == "sqlite_open" \notin F

MorningEnv(F, kind, stats, db) ==
  [today |-> Today, now |-> 24 * Today + 7,
   summary |-> [status |-> StatusIn(F, kind, "summary"), stats |-> stats],
   sqlite |-> [open |-> IF "sqlite_open" \in F THEN "error" ELSE "ok",
               hrv |-> [err |-> Issued(F) /\ "hrv_query" \in F, val |-> db.hrv],
               stages |-> [err |-> Issued(F) /\ "stages_query" \in F, deep |-> db.deep,
                           rem |-> db.rem, core |-> db.core],
               rr |-> [err |-> Issued(F) /\ "rr_query" \in F, val |-> db.rr]],
   calendar |-> [personal |-> [status |-> StatusIn(F, kind, "calendar_personal"),
                               events |-> PersonalEvents],
                 work |-> [status |-> StatusIn(F, kind, "calendar_work"),
                           events |-> WorkEvents]],
   todoist |-> [status |-> StatusIn(F, kind, "todoist"), results |-> TodayTasks],
   hevy |-> [status |-> StatusIn(F, kind, "hevy"), workouts |-> RecentWorkouts]]

MorningChoices ==
  {[mode |-> "morning", failed |-> F, kind |-> kind, stats |-> stats, db |-> db] :
     F \in {G \in SUBSET MorningSources :
              "sqlite_open" \in G =>
                 G \cap {"hrv_query", "stages_query", "rr_query"} = {}},
     kind \in FailKinds,
     stats \in SummaryStatsPool, db \in MorningSqlitePool}

NoEnv == [today |-> Today]

(***************************************************************************)
(* The sources of the evening pipeline.                                    *)
(***************************************************************************)
EveningSources ==
  {"sqlite_open", "active_energy", "dietary_energy", "protein", "steps",
   "stand_hours", "hrv_today", "hrv_yesterday", "resting_hr", "sleep_total",
   "sleep_deep", "hevy", "todoist", "calendar_personal", "calendar_work",
   "todoist_filter"}

EnergyPool ==
  {[active |-> 6110, consumed |-> 18500], [active |-> 5000, consumed |-> 21360],
   [active |-> 0, consumed |-> 0]}
ProteinPool == {1444, 0}

TomorrowPersonalEvents ==
  <<AllDay(<<"T", "r", "i", "p">>),
    Ev(Today + 1, 9, 0, TRUE, <<"S", "y", "n", "c">>),
    Ev(Today + 1, 7, 30, TRUE, <<"G", "Y", "M">>),
    Ev(Today, 6, 0, TRUE, <<"R", "u", "n">>)>>
TomorrowWorkEvents ==
  <<Ev(Today + 1, 7, 30, TRUE, <<"D", "e", "m", "o">>),
    Ev(Today + 1, 6, 0, FALSE, <<"g", "y", "m">>),
    Ev(Today + 1, 13, 0, TRUE, <<"1", ":", "1">>),
    Ev(Today + 1, 17, 0, TRUE, <<"P", "T", " ", "J", "e", "s", "p", "e", "r">>)>>

\* An evening before a quiet day: one timed event tomorrow, on the personal
\* account; the workouts the accounts list are today's or do not parse.
QuietPersonalEvents ==
  <<AllDay(<<"T", "r", "i", "p">>),
    Ev(Today, 6, 0, TRUE, <<"R", "u", "n">>),
    Ev(Today + 1, 10, 0, TRUE, <<"S", "y", "n", "c">>)>>
QuietWorkEvents ==
  <<Ev(Today + 1, 6, 0, FALSE, <<"g", "y", "m">>),
    Ev(Today, 18, 0, TRUE, <<"T", "r", "a", "i", "n", "i", "n", "g">>)>>

TomorrowTasks ==
  <<Task("Creatine", <<"PillMeds">>, FALSE, Due(Today + 1, None)),
    Task("Report", <<"Work">>, FALSE, Due(Today + 1, None)),
    Task("Injection", <<"Syringe">>, FALSE, Due(Today + 1, Some(<<8, 0>>)))>>

DayTotal(F, name, v) == [err |-> name \in F, val |-> IF name \in F THEN 0 ELSE v]
Latest(F, name, present, v) ==
  [err |-> name \in F, val |-> IF name \notin F /\ present THEN Some(v) ELSE None]

EveningEnv(F, kind, en, pr, present, busy) ==
  [today |-> Today, now |-> 24 * Today + 21,
   sqlite |-> [open |-> IF "sqlite_open" \in F THEN "error" ELSE "ok",
               active_energy |-> DayTotal(F, "active_energy", en.active),
               dietary_energy |-> DayTotal(F, "dietary_energy", en.consumed),
               protein |-> DayTotal(F, "protein", pr),
               steps |-> DayTotal(F, "steps", 8500),
               stand_hours |-> DayTotal(F, "stand_hours", 11),
               hrv_today |-> Latest(F, "hrv_today", present, 4200),
               hrv_yesterday |-> Latest(F, "hrv_yesterday", present, 3900),
               resting_hr |-> Latest(F, "resting_hr", present, 52),
               sleep_total |-> Latest(F, "sleep_total", present, 7200),
               sleep_deep |-> Latest(F, "sleep_deep", present, 1100)],
   hevy |-> [status |-> StatusIn(F, kind, "hevy"),
             workouts |-> <<Workout("w4", "Legs", Today, 18, TRUE)>> \o RecentWorkouts],
   todoist |-> [status |-> StatusIn(F, kind, "todoist"), results |-> TodayTasks],
   calendar |-> [personal |-> [status |-> StatusIn(F, kind, "calendar_personal"),
                               events |-> IF busy THEN TomorrowPersonalEvents
                                         ELSE QuietPersonalEvents],
                 work |-> [status |-> StatusIn(F, kind, "calendar_work"),
                           events |-> IF busy THEN TomorrowWorkEvents
                                     ELSE QuietWorkEvents]],
   filter |-> [status |-> StatusIn(F, kind, "todoist_filter"),
               results |-> TomorrowTasks]]

EveningChoices ==
  {[mode |-> "evening", failed |-> F, kind |-> kind, energy |-> en, protein |-> pr,
    present |-> present, busy |-> busy] :
     F \in {G \in SUBSET EveningSources : Cardinality(G) <= MaxFailed},
     kind \in FailKinds, en \in EnergyPool, pr \in ProteinPool,
     present \in BOOLEAN, busy \in BOOLEAN}

\* getTrainingData called on its own: what `hevy workouts` answers, a list of
\* up to three workouts, most recent first, whose start times may not parse.
WorkoutPool ==
  {Workout("w", "Session", Today - d, 7, ok) : d \in {1, 3, 9}, ok \in BOOLEAN}

WorkoutLists ==
  {<<>>} \cup {<<w>> : w \in WorkoutPool}
    \cup {<<w1, w2>> : w1 \in WorkoutPool, w2 \in WorkoutPool}
    \cup {<<w1, w2, w3>> : w1 \in WorkoutPool, w2 \in WorkoutPool, w3 \in WorkoutPool}

TrainingEnv(status, workouts) ==
  [today |-> Today, now |-> 24 * Today + 7,
   hevy |-> [status |-> status, workouts |-> workouts]]

TrainingChoices ==
  {[mode |-> "training", status |-> st, workouts |-> ws] :
     st \in {"ok"} \cup FailKinds, ws \in WorkoutLists}

\* The sources of the run: env holds the choice, world the answers it stands for.
world ==
  CASE env.mode = "morning" -> MorningEnv(env.failed, env.kind, env.stats, env.db)
    [] env.mode = "evening" ->
         EveningEnv(env.failed, env.kind, env.energy, env.protein, env.present,
                    env.busy)
    [] env.mode = "training" -> TrainingEnv(env.status, env.workouts)
    [] OTHER -> NoEnv

(***************************************************************************)
(* main (main.go): the morning pipeline, one action per call.              *)
(***************************************************************************)
InitMorning ==
  /\ env \in MorningChoices
  /\ b = NewMorningBriefing(world.today)
  /\ eb = NewEveningBriefing(world.today)
  /\ pc = "health"
  /\ calls = 0
  /\ out = <<>>

GetHealthData ==
  /\ pc = "health"
  /\ b' = getHealthData(b, world)
  /\ pc' = "sqlite"
  /\ UNCHANGED <<eb, env, calls, out>>

GetHealthDataFromSQLite ==
  /\ pc = "sqlite"
  /\ b' = getHealthDataFromSQLite(b, world)
  /\ pc' = "calendar"
  /\ UNCHANGED <<eb, env, calls, out>>

GetCalendarData ==
  /\ pc = "calendar"
  /\ b' = getCalendarData(b, world)
  /\ pc' = "meds"
  /\ UNCHANGED <<eb, env, calls, out>>

GetMedsData ==
  /\ pc = "meds"
  /\ b' = getMedsData(b, world)
  /\ pc' = "training"
  /\ UNCHANGED <<eb, env, calls, out>>

GetTrainingData ==
  /\ pc = "training"
  /\ b' = getTrainingData(b, world)
  /\ pc' = "classify"
  /\ UNCHANGED <<eb, env, calls, out>>

\* classify started on the summary provider's data alone, before the other
\* fetch steps have written.
Classify_BeforeMerge ==
  /\ pc = "classify"
  /\ b' = [b EXCEPT !.Classification =
             classify(getHealthData(NewMorningBriefing(world.today), world)).Classification]
  /\ pc' = "output"
  /\ UNCHANGED <<eb, env, calls, out>>

Classify ==
  /\ pc = "classify"
  /\ b' = classify(b)
  /\ pc' = "output"
  /\ UNCHANGED <<eb, env, calls, out>>

Output ==
  /\ pc = "output"
  /\ out' = Append(out, b)
  /\ pc' = "done"
  /\ UNCHANGED <<b, eb, env, calls>>

Next ==
  \/ GetHealthData
  \/ GetHealthDataFromSQLite
  \/ GetCalendarData
  \/ GetMedsData
  \/ GetTrainingData
  \/ Classify
  \/ Output

Spec == InitMorning /\ [][Next]_vars

(***************************************************************************)
(* classify called directly on a report, as the tests do: any flags, any   *)
(* hours, any HRV, any number of morning events, empty classification.     *)
(***************************************************************************)
HoursValues == {1000 * k : k \in 0..MaxHours} \cup {4999, 6999, 7500}
DeepValues == {0, 500, 999, 1000, 1500}
HrvValues == {1000 * k : k \in 0..MaxHrvTens} \cup {1450, 1550, 2001, 3999}

TestEvents(n) ==
  [i \in 1..n |-> [Time |-> <<9, 0>>, Summary |-> "Test", Source |-> "personal"]]

ClassifyInputs ==
  {[NewMorningBriefing(Today) EXCEPT
      !.Sleep.TotalHours = th, !.Sleep.DeepHours = dh,
      !.Sleep.DataAvailable = da, !.Sleep.IsCurrentDay = cd,
      !.Vitals.HRV = hv,
      !.Calendar.MorningEvents = TestEvents(n), !.Calendar.MorningCount = n] :
     th \in {None} \cup {Some(v) : v \in HoursValues},
     dh \in {None} \cup {Some(v) : v \in DeepValues},
     da \in BOOLEAN, cd \in BOOLEAN,
     hv \in {None} \cup {Some(v) : v \in HrvValues},
     n \in 0..MaxEvents}

InitClassify ==
  /\ b \in ClassifyInputs
  /\ eb = NewEveningBriefing(Today)
  /\ env = [mode |-> "unit"]
  /\ pc = "unit"
  /\ calls = 0
  /\ out = <<>>

ClassifyCall ==
  /\ pc = "unit"
  /\ calls < MaxCalls
  /\ b' = classify(b)
  /\ calls' = calls + 1
  /\ UNCHANGED <<eb, env, pc, out>>

SpecClassify == InitClassify /\ [][ClassifyCall]_vars

Classified == pc = "unit" /\ calls > 0
SleepUsable == b.Sleep.DataAvailable /\ b.Sleep.IsCurrentDay

\* C1: with available, current sleep data, known total hours h and deep
\* sleep absent or at least 1.0h, the sleep quality is GOOD when h >= 7, OK
\* when 5 <= h < 7 and POOR when h < 5.
C1_SleepThresholds ==
  (/\ Classified /\ SleepUsable /\ IsSome(b.Sleep.TotalHours)
   /\ (~IsSome(b.Sleep.DeepHours) \/ Val(b.Sleep.DeepHours) >= 1000))
  => LET h == Val(b.Sleep.TotalHours)
         q == b.Classification.SleepQuality
     IN  /\ h >= 7000 => q = "GOOD"
         /\ (5000 <= h /\ h < 7000) => q = "OK"
         /\ h < 5000 => q = "POOR"

C1_Witness ==
  /\ Classified /\ SleepUsable
  /\ b.Sleep.TotalHours = Some(6999) /\ b.Sleep.DeepHours = Some(1000)
  /\ b.Classification.SleepQuality = "OK"

\* C2: when dataAvailable is false or isCurrentDay is false the sleep quality
\* is UNKNOWN whatever the total and deep sleep hours are.
C2_StaleOrMissingIsUnknown ==
  (Classified /\ ~SleepUsable) => b.Classification.SleepQuality = "UNKNOWN"

C2_Witness ==
  /\ Classified /\ b.Sleep.DataAvailable /\ ~b.Sleep.IsCurrentDay
  /\ b.Sleep.TotalHours = Some(7500) /\ b.Sleep.DeepHours = Some(500)
  /\ b.Classification.SleepQuality = "UNKNOWN"

TotalOnlyQuality(h) ==
  IF h >= 7000 THEN "GOOD" ELSE IF h >= 5000 THEN "OK" ELSE "POOR"
OneStepDown(q) == IF q = "GOOD" THEN "OK" ELSE "POOR"

\* C3: with usable sleep data, deep sleep known and below 1.0h puts the sleep
\* quality exactly one step below the total-hours-only result (GOOD to OK,
\* OK to POOR, POOR stays); deep sleep absent or >= 1.0h leaves it unchanged.
C3_DeepSleepDowngrade ==
  (Classified /\ SleepUsable /\ IsSome(b.Sleep.TotalHours))
  => LET base == TotalOnlyQuality(Val(b.Sleep.TotalHours))
         q == b.Classification.SleepQuality
     IN  IF IsSome(b.Sleep.DeepHours) /\ Val(b.Sleep.DeepHours) < 1000
         THEN q = OneStepDown(base)
         ELSE q = base

C3_Witness ==
  /\ Classified /\ SleepUsable
  /\ b.Sleep.TotalHours = Some(7500) /\ b.Sleep.DeepHours = Some(500)
  /\ b.Classification.SleepQuality = "OK"

\* C4: recovery status is UNKNOWN without HRV, POOR for HRV <= 20, OK for
\* 20 < HRV < 40 and GOOD for HRV >= 40, whatever the sleep and calendar data.
C4_RecoveryThresholds ==
  Classified
  => LET rs == b.Classification.RecoveryStatus
         hrv == b.Vitals.HRV
     IN  /\ ~IsSome(hrv) => rs = "UNKNOWN"
         /\ IsSome(hrv) =>
              /\ Val(hrv) <= 2000 => rs = "POOR"
              /\ (2000 < Val(hrv) /\ Val(hrv) < 4000) => rs = "OK"
              /\ Val(hrv) >= 4000 => rs = "GOOD"

C4_Witness ==
  /\ Classified /\ b.Vitals.HRV = Some(2000)
  /\ b.Classification.RecoveryStatus = "POOR"
  /\ b.Classification.SleepQuality = "GOOD"
  /\ b.Calendar.MorningCount = 3

\* C5: morning load is CLEAR for 0 morning events, LIGHT for 1 or 2 and
\* PACKED for 3 or more, whatever the sleep and HRV data.
C5_MorningLoad ==
  Classified
  => LET n == Len(b.Calendar.MorningEvents)
         ml == b.Classification.MorningLoad
     IN  /\ n = 0 => ml = "CLEAR"
         /\ n \in {1, 2} => ml = "LIGHT"
         /\ n >= 3 => ml = "PACKED"

C5_Witness ==
  /\ Classified /\ Len(b.Calendar.MorningEvents) = 2
  /\ b.Classification.MorningLoad = "LIGHT"
  /\ IsSome(b.Vitals.HRV) /\ SleepUsable

LowerPriorityMessages ==
  {MsgPacked, MsgLight, MsgClear, MsgFocused, MsgAttack, MsgUnavailable}

\* C6: with HRV known and recovery POOR the recommendation is the combined
\* poor-sleep/poor-recovery message when sleep is POOR and otherwise the
\* low-HRV message naming the HRV value (to the nearest ms), for every
\* morning load; never one of the lower-priority messages.
C6_RecoveryOverride ==
  (Classified /\ IsSome(b.Vitals.HRV) /\ b.Classification.RecoveryStatus = "POOR")
  => LET rec == b.Classification.Recommendation
     IN  /\ b.Classification.SleepQuality = "POOR" => rec = MsgPoorSleepPoorRecovery
         /\ b.Classification.SleepQuality # "POOR" =>
              /\ rec.text = MsgLowHRV(0).text
              /\ IsSome(rec.arg)
              /\ 100 * Val(rec.arg) - Val(b.Vitals.HRV) \in -50..50
         /\ rec \notin LowerPriorityMessages

C6_Witness ==
  /\ Classified /\ b.Vitals.HRV = Some(1450)
  /\ b.Classification.SleepQuality = "POOR"
  /\ b.Classification.MorningLoad = "PACKED"
  /\ b.Classification.Recommendation = MsgPoorSleepPoorRecovery

\* C7: with recovery not POOR the recommendation follows the first matching
\* rule: POOR+PACKED, POOR+LIGHT, POOR+CLEAR, OK+PACKED, GOOD (any load), and
\* the data-unavailable message for every other (sleep, load) pair.
C7_RecommendationRules ==
  (Classified /\ b.Classification.RecoveryStatus # "POOR")
  => LET sq == b.Classification.SleepQuality
         ml == b.Classification.MorningLoad
         rec == b.Classification.Recommendation
     IN  /\ (sq = "POOR" /\ ml = "PACKED") => rec = MsgPacked
         /\ (sq = "POOR" /\ ml = "LIGHT") => rec = MsgLight
         /\ (sq = "POOR" /\ ml = "CLEAR") => rec = MsgClear
         /\ (sq = "OK" /\ ml = "PACKED") => rec = MsgFocused
         /\ sq = "GOOD" => rec = MsgAttack
         /\ (sq \notin {"POOR", "GOOD"} /\ ~(sq = "OK" /\ ml = "PACKED"))
              => rec = MsgUnavailable

C7_Witness ==
  /\ Classified /\ b.Classification.RecoveryStatus = "GOOD"
  /\ b.Classification.SleepQuality = "OK"
  /\ b.Classification.MorningLoad = "LIGHT"
  /\ b.Classification.Recommendation = MsgUnavailable

(***************************************************************************)
(* RunEveningBriefing (evening.go): the evening pipeline, one action per   *)
(* call.                                                                   *)
(***************************************************************************)
InitEvening ==
  /\ env \in EveningChoices
  /\ eb = NewEveningBriefing(world.today)
  /\ b = NewMorningBriefing(world.today)
  /\ pc = "e_health"
  /\ calls = 0
  /\ out = <<>>

GetEveningHealthData ==
  /\ pc = "e_health"
  /\ eb' = getEveningHealthData(eb, world)
  /\ pc' = "e_workout"
  /\ UNCHANGED <<b, env, calls, out>>

GetEveningWorkoutData ==
  /\ pc = "e_workout"
  /\ eb' = getEveningWorkoutData(eb, world)
  /\ pc' = "e_protocol"
  /\ UNCHANGED <<b, env, calls, out>>

GetEveningProtocolData ==
  /\ pc = "e_protocol"
  /\ eb' = getEveningProtocolData(eb, world)
  /\ pc' = "e_tomorrow"
  /\ UNCHANGED <<b, env, calls, out>>

GetTomorrowData ==
  /\ pc = "e_tomorrow"
  /\ eb' = getTomorrowData(eb, world)
  /\ pc' = "e_output"
  /\ UNCHANGED <<b, env, calls, out>>

EveningOutput ==
  /\ pc = "e_output"
  /\ out' = Append(out, eb)
  /\ pc' = "done"
  /\ UNCHANGED <<b, eb, env, calls>>

EveningNext ==
  \/ GetEveningHealthData
  \/ GetEveningWorkoutData
  \/ GetEveningProtocolData
  \/ GetTomorrowData
  \/ EveningOutput

SpecEvening == InitEvening /\ [][EveningNext]_vars

(***************************************************************************)
(* Which morning queries succeeded in this run, and the report main()      *)
(* produces when the same sources all succeed.                             *)
(***************************************************************************)
SummaryOk == world.summary.status = "ok"
SqliteOpenOk == world.sqlite.open = "ok"
HrvQueryOk == SqliteOpenOk /\ ~world.sqlite.hrv.err
StagesQueryOk == SqliteOpenOk /\ ~world.sqlite.stages.err
RrQueryOk == SqliteOpenOk /\ ~world.sqlite.rr.err
PersonalOk == world.calendar.personal.status = "ok"
WorkOk == world.calendar.work.status = "ok"
TodoistOk == world.todoist.status = "ok"
HevyOk == world.hevy.status = "ok"

NoFailure(e) ==
  [e EXCEPT !.summary.status = "ok", !.sqlite.open = "ok",
            !.sqlite.hrv.err = FALSE, !.sqlite.stages.err = FALSE,
            !.sqlite.rr.err = FALSE,
            !.calendar.personal.status = "ok", !.calendar.work.status = "ok",
            !.todoist.status = "ok", !.hevy.status = "ok"]

RunMorning(e) ==
  classify(
    getTrainingData(
      getMedsData(
        getCalendarData(
          getHealthDataFromSQLite(getHealthData(NewMorningBriefing(e.today), e), e),
          e),
        e),
      e))

Emitted == pc = "done" /\ Len(out) = 1
AccountOk(source) == IF source = "personal" THEN PersonalOk ELSE WorkOk
FromLiveAccount(ev) == AccountOk(ev.Source)

SummaryOnlyFieldsAgree(f, g) ==
  /\ f.Sleep.TotalHours = g.Sleep.TotalHours
  /\ f.Sleep.DataDate = g.Sleep.DataDate
  /\ f.Sleep.DataAvailable = g.Sleep.DataAvailable
  /\ f.Sleep.IsCurrentDay = g.Sleep.IsCurrentDay
  /\ f.Vitals.RestingHR = g.Vitals.RestingHR
  /\ f.Vitals.SpO2 = g.Vitals.SpO2

ClassifiedAndEmitted(f) ==
  /\ f.Classification.SleepQuality \in {"GOOD", "OK", "POOR", "UNKNOWN"}
  /\ f.Classification.RecoveryStatus = RecoveryStatusOf(f.Vitals.HRV)
  /\ f.Classification.MorningLoad = MorningLoadOf(f.Calendar.MorningCount)
  /\ f.Classification.Recommendation # NoText
  /\ f = b

\* C8 as stated: every field that some source which did not fail populates
\* has its no-failure value in the emitted report.
C8_AsStated ==
  pc = "done"
  => LET f == out[1]
         g == RunMorning(NoFailure(world))
         st == world.summary.stats
         db == world.sqlite
     IN  /\ Emitted
         /\ SummaryOk => SummaryOnlyFieldsAgree(f, g)
         /\ ((SummaryOk /\ IsSome(st.heart_rate_variability))
               \/ (HrvQueryOk /\ IsSome(db.hrv.val)))
              => f.Vitals.HRV = g.Vitals.HRV
         /\ ((SummaryOk /\ IsSome(st.sleep_deep))
               \/ (StagesQueryOk /\ IsSome(db.stages.deep)))
              => f.Sleep.DeepHours = g.Sleep.DeepHours
         /\ ((SummaryOk /\ IsSome(st.sleep_rem))
               \/ (StagesQueryOk /\ IsSome(db.stages.rem)))
              => f.Sleep.REMHours = g.Sleep.REMHours
         /\ StagesQueryOk => f.Sleep.CoreHours = g.Sleep.CoreHours
         /\ RrQueryOk => f.Vitals.RespiratoryRate = g.Vitals.RespiratoryRate
         /\ (PersonalOk \/ WorkOk) => f.Calendar = g.Calendar
         /\ TodoistOk => f.Meds = g.Meds
         /\ HevyOk => f.Training = g.Training
         /\ ClassifiedAndEmitted(f)

\* C8 (amended): a field has its no-failure value whenever every source that
\* contributes to that value did not fail: the summary provider alone for
\* total hours, flags, resting HR and SpO2; for HRV, deep and REM hours the
\* metrics-store query when it holds a value, else the summary provider; the
\* metrics store alone for core hours and respiratory rate; both accounts for
\* the calendar; the task tracker for meds; the workout log for training.
\* The calendar buckets always hold exactly the no-failure events of the
\* accounts that did not fail, in order.  Classification runs and the report
\* is emitted whatever fails, and the pipeline never stops before that.
C8_FetchIsolation ==
  /\ pc # "done" => ENABLED Next
  /\ pc = "done"
     => LET f == out[1]
            g == RunMorning(NoFailure(world))
            db == world.sqlite
        IN  /\ Emitted
            /\ SummaryOk => SummaryOnlyFieldsAgree(f, g)
            /\ (IF IsSome(db.hrv.val) THEN HrvQueryOk ELSE SummaryOk)
                 => f.Vitals.HRV = g.Vitals.HRV
            /\ (IF IsSome(db.stages.deep) THEN StagesQueryOk ELSE SummaryOk)
                 => f.Sleep.DeepHours = g.Sleep.DeepHours
            /\ (IF IsSome(db.stages.rem) THEN StagesQueryOk ELSE SummaryOk)
                 => f.Sleep.REMHours = g.Sleep.REMHours
            /\ StagesQueryOk => f.Sleep.CoreHours = g.Sleep.CoreHours
            /\ RrQueryOk => f.Vitals.RespiratoryRate = g.Vitals.RespiratoryRate
            /\ f.Calendar.MorningEvents
                 = SelectSeq(g.Calendar.MorningEvents, FromLiveAccount)
            /\ f.Calendar.AfternoonEvents
                 = SelectSeq(g.Calendar.AfternoonEvents, FromLiveAccount)
            /\ f.Calendar.MorningCount = Len(f.Calendar.MorningEvents)
            /\ (PersonalOk /\ WorkOk) => f.Calendar = g.Calendar
            /\ TodoistOk => f.Meds = g.Meds
            /\ HevyOk => f.Training = g.Training
            /\ ClassifiedAndEmitted(f)

C8_Witness ==
  /\ Emitted
  /\ ~SummaryOk /\ ~PersonalOk /\ ~HevyOk
  /\ HrvQueryOk /\ WorkOk /\ TodoistOk
  /\ out[1].Vitals.HRV = Some(3000)
  /\ Len(out[1].Calendar.MorningEvents) = 2
  /\ Len(out[1].Meds.Overdue) = 1
  /\ out[1].Classification.RecoveryStatus = "OK"

(***************************************************************************)
(* Calendar failure alone.                                                 *)
(***************************************************************************)
MentionsCalendar(w) ==
  w.text \in {"calendar error (%s)", "calendar JSON parse error (%s)"}

OnlyCalendarFailed ==
  /\ ~PersonalOk \/ ~WorkOk
  /\ SummaryOk /\ HrvQueryOk /\ StagesQueryOk /\ RrQueryOk /\ TodoistOk /\ HevyOk

OtherFieldsPopulated(f, g) ==
  /\ f.Sleep = g.Sleep /\ f.Vitals = g.Vitals
  /\ f.Meds = g.Meds /\ f.Training = g.Training

FailedAccounts ==
  (IF PersonalOk THEN <<>> ELSE <<"personal">>) \o (IF WorkOk THEN <<>> ELSE <<"work">>)

\* C10 as stated: the calendar failing alone leaves exactly one warning.
C10_AsStated ==
  (Emitted /\ OnlyCalendarFailed)
  => /\ OtherFieldsPopulated(out[1], RunMorning(NoFailure(world)))
     /\ Len(out[1].Errors) = 1
     /\ MentionsCalendar(out[1].Errors[1])

\* C10 (amended): when calendar queries fail and every other source
\* succeeds, the report holds the sleep, vitals, meds and training fields of
\* the no-failure run and its warnings list has exactly one entry per failed
\* calendar account (one or two), each referencing the calendar and tagged
\* with its account, personal before work.
C10_CalendarFailureOnly ==
  (Emitted /\ OnlyCalendarFailed)
  => LET f == out[1]
     IN  /\ OtherFieldsPopulated(f, RunMorning(NoFailure(world)))
         /\ Len(f.Errors) = Len(FailedAccounts)
         /\ \A i \in 1..Len(f.Errors) :
              /\ MentionsCalendar(f.Errors[i])
              /\ f.Errors[i].arg = Some(FailedAccounts[i])

C10_Witness ==
  /\ Emitted /\ OnlyCalendarFailed /\ ~PersonalOk /\ ~WorkOk
  /\ Len(out[1].Errors) = 2
  /\ IsSome(out[1].Sleep.TotalHours) /\ IsSome(out[1].Vitals.HRV)
  /\ Len(out[1].Meds.Completed) = 2
  /\ IsSome(out[1].Training.LastWorkout)
  /\ out[1].Calendar.MorningCount = 0

(***************************************************************************)
(* Warnings of the evening pipeline.  A query counts as failed when it was *)
(* issued and returned an error: nothing is queried after a failed open.   *)
(***************************************************************************)
EveningQueryNames ==
  {"active_energy", "dietary_energy", "protein", "steps", "stand_hours",
   "hrv_today", "hrv_yesterday", "resting_hr", "sleep_total", "sleep_deep"}

EveningFailed ==
  (IF world.sqlite.open = "error" THEN {"sqlite_open"}
   ELSE {q \in EveningQueryNames : world.sqlite[q].err})
  \cup (IF world.hevy.status # "ok" THEN {"hevy"} ELSE {})
  \cup (IF world.todoist.status # "ok" THEN {"todoist"} ELSE {})
  \cup (IF world.calendar.personal.status # "ok" THEN {"calendar_personal"} ELSE {})
  \cup (IF world.calendar.work.status # "ok" THEN {"calendar_work"} ELSE {})
  \cup (IF world.filter.status # "ok" THEN {"todoist_filter"} ELSE {})

\* The warning texts that identify a source, after the sibling call sites.
Identifies(w, source) ==
  CASE source = "sqlite_open" -> w.text = "sqlite open error"
    [] source \in {"active_energy", "dietary_energy", "protein", "steps", "stand_hours"}
         -> w.text = source \o " query error"
    [] source \in {"hrv_today", "hrv_yesterday"} -> w.text = "HRV query error"
    [] source = "resting_hr" -> w.text = "resting_heart_rate query error"
    [] source \in {"sleep_total", "sleep_deep"} -> w.text = source \o " query error"
    [] source = "hevy" -> w.text \in {"hevy error", "hevy JSON parse error"}
    [] source \in {"todoist", "todoist_filter"}
         -> w.text \in {"todoist error", "todoist JSON parse error"}
    [] source \in {"calendar_personal", "calendar_work"} -> MentionsCalendar(w)

\* C9: every failed source query of the evening pipeline, the tomorrow
\* preview sub-fetches and the HRV, resting-heart-rate and sleep queries
\* included, has appended a warning identifying it by the time the report is
\* emitted, one warning per failed query.
C9_EveryFailureWarned ==
  (pc = "done" /\ Len(out) = 1)
  => /\ \A s \in EveningFailed :
          \E i \in 1..Len(out[1].Errors) : Identifies(out[1].Errors[i], s)
     /\ Len(out[1].Errors) >= Cardinality(EveningFailed)

(***************************************************************************)
(* Merge of the two health sources.  SummaryValue is what getHealthData    *)
(* leaves in a field for a LatestStats key; StoreWins says the metrics     *)
(* store answered the query with a value.                                  *)
(***************************************************************************)
SummaryValue(key) ==
  IF SummaryOk /\ IsSome(world.summary.stats[key])
  THEN Some(Val(world.summary.stats[key]).Value)
  ELSE None

Merged(queryOk, storeValue, summaryValue) ==
  IF queryOk /\ IsSome(storeValue) THEN storeValue ELSE summaryValue

\* C11: in the emitted morning report HRV, deep-sleep hours, REM hours and
\* respiratory rate hold the metrics-store value when its query succeeded with
\* a non-null value, and otherwise the summary-provider value (absent when the
\* summary provider has none); a query error or a null result erases nothing.
C11_MergePrecedence ==
  Emitted =>
    /\ out[1].Vitals.HRV =
         Merged(HrvQueryOk, world.sqlite.hrv.val, SummaryValue("heart_rate_variability"))
    /\ out[1].Sleep.DeepHours =
         Merged(StagesQueryOk, world.sqlite.stages.deep, SummaryValue("sleep_deep"))
    /\ out[1].Sleep.REMHours =
         Merged(StagesQueryOk, world.sqlite.stages.rem, SummaryValue("sleep_rem"))
    /\ out[1].Vitals.RespiratoryRate = Merged(RrQueryOk, world.sqlite.rr.val, None)

\* The store overrides deep sleep while its null HRV leaves the summary's HRV.
C11_Witness ==
  /\ Emitted
  /\ SummaryOk /\ StagesQueryOk /\ HrvQueryOk
  /\ world.sqlite.hrv.val = None
  /\ IsSome(world.summary.stats.heart_rate_variability)
  /\ out[1].Vitals.HRV = Some(1500)
  /\ world.summary.stats.sleep_deep = Stat(500, Today)
  /\ out[1].Sleep.DeepHours = Some(1200)

(***************************************************************************)
(* The calculations of evening.go called directly, as evening_test.go      *)
(* does: env holds the function and its arguments, out receives the        *)
(* returned values.  Weights and heights are whole numbers, active energy  *)
(* a multiple of half a kcal, so the float64 arithmetic of the code is     *)
(* exact wherever a comparison or a conversion to int depends on it.       *)
(***************************************************************************)
ParseModeInputs ==
  {[mode |-> "calc", fn |-> "ParseMode", morning |-> m, evening |-> e] :
     m \in BOOLEAN, e \in BOOLEAN}

BMRInputs ==
  {[mode |-> "calc", fn |-> "CalculateBMR", weightKg |-> w, heightCm |-> h,
    age |-> a, isMale |-> s] :
     w \in 60..MaxWeightKg, h \in 160..MaxHeightCm,
     a \in {25, 30, UserAge, 70}, s \in BOOLEAN}

EnergyInputs ==
  {[mode |-> "calc", fn |-> "CalculateEnergyBalance", bmr |-> bm,
    activeEnergy |-> ac, consumedEnergy |-> 10 * bm + ac + d] :
     bm \in {UserBMRKcal, 1805}, ac \in {0, 6110, 6115},
     d \in (-MaxOffset)..MaxOffset}

ProteinInputs ==
  {[mode |-> "calc", fn |-> "CalculateProteinStatus", consumed |-> c,
    target |-> 10 * t] :
     c \in 0..MaxProtein, t \in {0, 100, 150, UserProteinTargetG}}

InitCalc ==
  /\ env \in ParseModeInputs \cup BMRInputs \cup EnergyInputs \cup ProteinInputs
  /\ b = NewMorningBriefing(Today)
  /\ eb = NewEveningBriefing(Today)
  /\ pc = "calc"
  /\ calls = 0
  /\ out = <<>>

Returned(value) ==
  /\ out' = Append(out, value)
  /\ calls' = calls + 1
  /\ UNCHANGED <<b, eb, env, pc>>

CallParseMode ==
  /\ pc = "calc" /\ calls = 0 /\ env.fn = "ParseMode"
  /\ Returned(ParseMode(env.morning, env.evening))

CallCalculateBMR ==
  /\ pc = "calc" /\ calls = 0 /\ env.fn = "CalculateBMR"
  /\ Returned(CalculateBMR(env.weightKg, env.heightCm, env.age, env.isMale))

CallCalculateEnergyBalance ==
  /\ pc = "calc" /\ calls = 0 /\ env.fn = "CalculateEnergyBalance"
  /\ Returned(CalculateEnergyBalance(env.bmr, env.activeEnergy, env.consumedEnergy))

CallCalculateProteinStatus ==
  /\ pc = "calc" /\ calls = 0 /\ env.fn = "CalculateProteinStatus"
  /\ Returned(CalculateProteinStatus(env.consumed, env.target))

CalcNext ==
  \/ CallParseMode
  \/ CallCalculateBMR
  \/ CallCalculateEnergyBalance
  \/ CallCalculateProteinStatus

SpecCalc == InitCalc /\ [][CalcNext]_vars

HasReturned(fn) == pc = "calc" /\ env.fn = fn /\ Len(out) = 1

\* C12: ParseMode returns an error and the empty mode when both flags are
\* set, "morning" without error when neither or only morning is set, "evening"
\* without error when only evening is set; never a mode together with an error.
C12_ParseMode ==
  HasReturned("ParseMode") =>
    /\ (env.morning /\ env.evening) => (out[1].err /\ out[1].mode = "")
    /\ ~env.evening => (~out[1].err /\ out[1].mode = "morning")
    /\ (env.evening /\ ~env.morning) => (~out[1].err /\ out[1].mode = "evening")
    /\ ~(out[1].err /\ out[1].mode # "")

C12_Witness ==
  /\ HasReturned("ParseMode")
  /\ env.morning /\ env.evening
  /\ out[1] = [mode |-> "", err |-> TRUE]

\* C13: CalculateEnergyBalance returns "deficit" exactly when the returned
\* balance is below -50, "surplus" exactly when it is above 50, and
\* "maintenance" otherwise (-50 and 50 included); never another status.
C13_EnergyStatus ==
  HasReturned("CalculateEnergyBalance") =>
    /\ out[1].status \in {"deficit", "surplus", "maintenance"}
    /\ (out[1].status = "deficit") <=> (out[1].balance < -50)
    /\ (out[1].status = "surplus") <=> (out[1].balance > 50)
    /\ (out[1].status = "maintenance") <=> (out[1].balance \in (-50)..50)

C13_Witness ==
  /\ HasReturned("CalculateEnergyBalance")
  /\ env.consumedEnergy - 10 * env.bmr - env.activeEnergy = -510
  /\ out[1] = [balance |-> -50, status |-> "maintenance"]

\* The nearest whole number to num/den (den > 0), halves rounded up:
\* floor(num/den + 1/2).
RoundHalfUp(num, den) == (2 * num + den) \div (2 * den)

\* C14: for every bmr, active and consumed energy, a negative and
\* non-integral difference included, the returned balance is
\* consumed - (bmr + active) rounded to the nearest whole kcal, halves up.
C14_BalanceRoundsHalfUp ==
  HasReturned("CalculateEnergyBalance") =>
    out[1].balance =
      RoundHalfUp(env.consumedEnergy - 10 * env.bmr - env.activeEnergy, 10)

\* C15: CalculateBMR returns 10*weightKg + 6.25*heightCm - 5*age + 5 for a
\* male and - 161 otherwise, rounded to the nearest whole kcal (halves up),
\* and nothing else changes; for the user's stats (73, 177, 41, male) it
\* returns 1636, the UserBMRKcal constant.
C15_BMRFormula ==
  HasReturned("CalculateBMR") =>
    /\ out[1] =
         RoundHalfUp(1000 * env.weightKg + 625 * env.heightCm - 500 * env.age
                       + (IF env.isMale THEN 500 ELSE -16100), 100)
    /\ (/\ env.weightKg = 73 /\ env.heightCm = 177 /\ env.age = 41 /\ env.isMale)
         => (out[1] = 1636 /\ out[1] = UserBMRKcal)
    /\ b = NewMorningBriefing(Today) /\ eb = NewEveningBriefing(Today)

C15_Witness ==
  /\ HasReturned("CalculateBMR")
  /\ env.weightKg = UserWeightKg /\ env.heightCm = UserHeightCm
  /\ env.age = UserAge /\ env.isMale = UserIsMale
  /\ out[1] = 1636

\* C16: CalculateProteinStatus returns remaining = max(0, target - consumed),
\* never negative, and onTrack exactly when consumed >= 95% of target: at
\* exactly 95% on track, above target remaining 0 and on track, nothing
\* consumed of a positive target remaining = target and not on track.
C16_ProteinStatus ==
  HasReturned("CalculateProteinStatus") =>
    /\ out[1].remaining =
         (IF env.target - env.consumed > 0 THEN env.target - env.consumed ELSE 0)
    /\ out[1].remaining >= 0
    /\ out[1].onTrack <=> (100 * env.consumed >= 95 * env.target)
    /\ (100 * env.consumed = 95 * env.target) => out[1].onTrack
    /\ (env.consumed > env.target) => (out[1].remaining = 0 /\ out[1].onTrack)
    /\ (env.consumed = 0 /\ env.target > 0)
         => (out[1].remaining = env.target /\ ~out[1].onTrack)

C16_Witness ==
  /\ HasReturned("CalculateProteinStatus")
  /\ env.consumed = 1444 /\ env.target = 1520
  /\ out[1] = [remaining |-> 76, onTrack |-> TRUE]

(***************************************************************************)
(* Absent metrics in the evening report.  A day total is absent when its   *)
(* query was issued and failed.                                            *)
(***************************************************************************)
EveningEmitted == pc = "done" /\ Len(out) = 1 /\ env.mode = "evening"

DayTotalAbsent(name) == world.sqlite.open = "ok" /\ world.sqlite[name].err

EnergyStatuses == {"deficit", "surplus", "maintenance"}

\* C17: a metric that is absent is never treated as zero by a derived value:
\* when the active-energy or the consumed-energy query failed, the evening
\* report carries no energy status and no balance computed from 0, and when
\* the protein query failed, no remaining amount computed from 0.
C17_AbsentNeverZero ==
  EveningEmitted =>
    /\ (DayTotalAbsent("active_energy") \/ DayTotalAbsent("dietary_energy"))
         => /\ out[1].Energy.Status \notin EnergyStatuses
            /\ out[1].Energy.DeficitOrSurplusKcal = 0
    /\ DayTotalAbsent("protein")
         => /\ out[1].Protein.RemainingG = 0
            /\ ~out[1].Protein.OnTrack

\* C18: after classify returns on any morning report whose classification
\* was empty (any flags, total hours, deep hours and HRV present or absent,
\* any event count), sleep quality and recovery status are each one of GOOD,
\* OK, POOR, UNKNOWN, morning load is one of CLEAR, LIGHT, PACKED, and the
\* recommendation is non-empty.
C18_OutputDomains ==
  (Classified /\ calls = 1) =>
    /\ b.Classification.SleepQuality \in {"GOOD", "OK", "POOR", "UNKNOWN"}
    /\ b.Classification.RecoveryStatus \in {"GOOD", "OK", "POOR", "UNKNOWN"}
    /\ b.Classification.MorningLoad \in {"CLEAR", "LIGHT", "PACKED"}
    /\ b.Classification.Recommendation.text # ""

(***************************************************************************)
(* Calendar buckets against what the accounts returned.  An event is       *)
(* recognised in a bucket by its summary and source tag (the summaries of  *)
(* one account are distinct).                                              *)
(***************************************************************************)
ProviderEvents(source) ==
  IF source = "personal" THEN world.calendar.personal.events
  ELSE world.calendar.work.events

InBucket(bucket, ev, source) ==
  \E i \in 1..Len(bucket) : bucket[i].Summary = ev.summary /\ bucket[i].Source = source

StartsOnTargetDate(ev) == IsSome(ev.start) /\ Val(ev.start).day = world.today

\* C19: an event returned by a calendar account is in the morning bucket
\* only if it starts on the target date with hour < 12, in the afternoon
\* bucket only if it starts on the target date with hour in 12..17, and in
\* neither bucket if it is all-day, starts at 18:00 or later, or does not
\* start on the target date; no event is in both buckets, and every bucket
\* entry is such an event.
C19_CalendarBucketing ==
  env.mode = "morning" =>
    /\ \A source \in {"personal", "work"} :
         \A i \in 1..Len(ProviderEvents(source)) :
           LET ev == ProviderEvents(source)[i]
               inMorning == InBucket(b.Calendar.MorningEvents, ev, source)
               inAfternoon == InBucket(b.Calendar.AfternoonEvents, ev, source)
           IN  /\ inMorning => (StartsOnTargetDate(ev) /\ Val(ev.start).hour < 12)
               /\ inAfternoon
                    => (StartsOnTargetDate(ev) /\ Val(ev.start).hour \in 12..17)
               /\ (~StartsOnTargetDate(ev) \/ Val(ev.start).hour >= 18)
                    => (~inMorning /\ ~inAfternoon)
               /\ ~(inMorning /\ inAfternoon)
    /\ \A bucket \in {b.Calendar.MorningEvents, b.Calendar.AfternoonEvents} :
         \A j \in 1..Len(bucket) :
           \E i \in 1..Len(ProviderEvents(bucket[j].Source)) :
             LET ev == ProviderEvents(bucket[j].Source)[i]
             IN  /\ ev.summary = bucket[j].Summary
                 /\ StartsOnTargetDate(ev)
                 /\ bucket[j].Time = <<Val(ev.start).hour, Val(ev.start).minute>>

\* Both accounts answered: 8:00, 9:30 and 11:15 are in the morning bucket,
\* 12:00, 14:00 and 17:45 in the afternoon bucket, and the all-day event, the
\* 18:00 event and tomorrow's event in neither.
C19_Witness ==
  /\ Emitted /\ PersonalOk /\ WorkOk
  /\ [i \in 1..Len(out[1].Calendar.MorningEvents) |->
        out[1].Calendar.MorningEvents[i].Summary] = <<"Standup", "Planning", "Review">>
  /\ [i \in 1..Len(out[1].Calendar.AfternoonEvents) |->
        out[1].Calendar.AfternoonEvents[i].Summary] = <<"Dentist", "Pickup", "Lunch">>

(***************************************************************************)
(* Medication lists against the tasks the task source returned.  A task    *)
(* is recognised in a list by its name (the contents are distinct).        *)
(***************************************************************************)
Listed(list, task) == \E i \in 1..Len(list) : list[i].Name = task.content

Occurrences(list, task) ==
  Cardinality({i \in 1..Len(list) : list[i].Name = task.content})

MedsFetched == env.mode = "morning" /\ pc \in {"training", "classify", "output", "done"}

\* C20: after the morning task fetch every task carrying a medication label
\* is in exactly one of Completed, Overdue, DueToday: Completed if its
\* completion flag is set (whatever its due date), otherwise Overdue if it has
\* a due date strictly before the target date, otherwise DueToday (tasks with
\* no due date included); a task without such a label is in none of them.
C20_MedsPartition ==
  (MedsFetched /\ TodoistOk) =>
    \A i \in 1..Len(world.todoist.results) :
      LET task == world.todoist.results[i]
          n(list) == Occurrences(list, task)
      IN  IF ~IsMed(task)
          THEN n(b.Meds.Completed) + n(b.Meds.Overdue) + n(b.Meds.DueToday) = 0
          ELSE /\ n(b.Meds.Completed) + n(b.Meds.Overdue) + n(b.Meds.DueToday) = 1
               /\ Listed(b.Meds.Completed, task) <=> task.is_completed
               /\ Listed(b.Meds.Overdue, task)
                    <=> (/\ ~task.is_completed
                         /\ IsSome(task.due)
                         /\ Val(task.due).date < world.today)
               /\ Listed(b.Meds.DueToday, task)
                    <=> (/\ ~task.is_completed
                         /\ (IsSome(task.due) => Val(task.due).date >= world.today))

\* A completed medication with a past due date is in Completed, one without
\* a due date in DueToday, an open one due yesterday in Overdue.
C20_Witness ==
  /\ MedsFetched /\ TodoistOk /\ pc = "done"
  /\ [i \in 1..Len(b.Meds.Completed) |-> b.Meds.Completed[i].Name]
       = <<"Creatine", "Fish oil">>
  /\ [i \in 1..Len(b.Meds.Overdue) |-> b.Meds.Overdue[i].Name] = <<"Vitamin D">>
  /\ [i \in 1..Len(b.Meds.DueToday) |-> b.Meds.DueToday[i].Name]
       = <<"Injection", "Magnesium", "Zinc">>

(***************************************************************************)
(* Classification against the merged report.                               *)
(***************************************************************************)
MergedHRV ==
  Merged(HrvQueryOk, world.sqlite.hrv.val, SummaryValue("heart_rate_variability"))

MergedDeep ==
  Merged(StagesQueryOk, world.sqlite.stages.deep, SummaryValue("sleep_deep"))

IsMorningEvent(ev) ==
  /\ StartsOnTargetDate(ev) /\ Val(ev.start).rfc3339 /\ Val(ev.start).hour < 12

MorningEventCount(source) ==
  IF AccountOk(source)
  THEN Cardinality({i \in 1..Len(ProviderEvents(source)) :
                      IsMorningEvent(ProviderEvents(source)[i])})
  ELSE 0

ClassifiedFromMerged ==
  Emitted =>
    LET f == out[1]
    IN  /\ f.Classification.RecoveryStatus = RecoveryStatusOf(MergedHRV)
        /\ f.Vitals.HRV = MergedHRV
        /\ f.Classification.SleepQuality =
             (IF IsSome(f.Sleep.TotalHours) /\ f.Sleep.IsCurrentDay
              THEN DeepSleepDowngrade(SleepFromHours(Val(f.Sleep.TotalHours)), MergedDeep)
              ELSE "UNKNOWN")
        /\ f.Classification.MorningLoad =
             MorningLoadOf(MorningEventCount("personal") + MorningEventCount("work"))
        /\ f = b

NoWriteAfterClassify == pc \in {"output", "done"} => b' = b

\* C21: classification runs after every fetch and merge step: in the emitted
\* report the recovery status is derived from the final merged HRV, the sleep
\* quality from the final merged deep-sleep hours, the morning load from the
\* morning events of both accounts, and no step writes to the report once
\* classify has run.
C21_ClassifyAfterFetches ==
  []ClassifiedFromMerged /\ [][NoWriteAfterClassify]_vars

\* The store's HRV 30 and deep sleep 1.2h replaced the summary's 15 and 0.5h
\* before classify read them; three morning events over the two accounts.
C21_Witness ==
  /\ Emitted /\ SummaryOk /\ HrvQueryOk /\ StagesQueryOk /\ PersonalOk /\ WorkOk
  /\ SummaryValue("heart_rate_variability") = Some(1500)
  /\ SummaryValue("sleep_deep") = Some(500)
  /\ out[1].Sleep.TotalHours = Some(7500)
  /\ out[1].Vitals.HRV = Some(3000) /\ out[1].Sleep.DeepHours = Some(1200)
  /\ out[1].Classification.RecoveryStatus = "OK"
  /\ out[1].Classification.SleepQuality = "GOOD"
  /\ out[1].Classification.MorningLoad = "PACKED"

(***************************************************************************)
(* The fetch steps of main() taken in any order that keeps the metrics     *)
(* store after the summary provider; calls is the set of steps taken.      *)
(* classify and the output follow once all five have run.                  *)
(***************************************************************************)
FetchSteps == {"health", "sqlite", "calendar", "meds", "training"}

StepResult(step, r, e) ==
  CASE step = "health" -> getHealthData(r, e)
    [] step = "sqlite" -> getHealthDataFromSQLite(r, e)
    [] step = "calendar" -> getCalendarData(r, e)
    [] step = "meds" -> getMedsData(r, e)
    [] step = "training" -> getTrainingData(r, e)

AnyOrderChoices == {c \in MorningChoices : Cardinality(c.failed) <= MaxFailed}

InitAnyOrder ==
  /\ env \in AnyOrderChoices
  /\ b = NewMorningBriefing(world.today)
  /\ eb = NewEveningBriefing(world.today)
  /\ pc = "fetch"
  /\ calls = {}
  /\ out = <<>>

FetchStep(step) ==
  /\ pc = "fetch"
  /\ step \notin calls
  /\ step = "sqlite" => "health" \in calls
  /\ b' = StepResult(step, b, world)
  /\ calls' = calls \cup {step}
  /\ pc' = IF calls' = FetchSteps THEN "classify" ELSE "fetch"
  /\ UNCHANGED <<eb, env, out>>

AnyOrderNext ==
  \/ \E step \in FetchSteps : FetchStep(step)
  \/ Classify
  \/ Output

SpecAnyOrder == InitAnyOrder /\ [][AnyOrderNext]_vars

SameWarnings(e1, e2) ==
  /\ Len(e1) = Len(e2)
  /\ \A w \in {e1[i] : i \in 1..Len(e1)} :
        Cardinality({i \in 1..Len(e1) : e1[i] = w})
          = Cardinality({i \in 1..Len(e2) : e2[i] = w})

\* C22: for fixed source responses and failures, the fetch steps run in any
\* order that keeps the metrics-store write after the summary-provider write
\* give the same sleep, vitals, calendar, meds, training and classification
\* values as main()'s order; the warnings are the same up to their order.
C22_OrderIndependence ==
  Emitted =>
    LET f == out[1]
        g == RunMorning(world)
    IN  /\ f.Sleep = g.Sleep /\ f.Vitals = g.Vitals /\ f.Calendar = g.Calendar
        /\ f.Meds = g.Meds /\ f.Training = g.Training
        /\ f.Classification = g.Classification
        /\ SameWarnings(f.Errors, g.Errors)

\* The workouts were fetched first and the summary provider last but one;
\* two sources failed and their warnings come in another order than main()'s.
C22_Witness ==
  /\ Emitted
  /\ Len(out[1].Errors) = 2
  /\ out[1].Errors # RunMorning(world).Errors
  /\ IsSome(out[1].Vitals.HRV) /\ IsSome(out[1].Sleep.TotalHours)

(***************************************************************************)
(* The tomorrow preview against what the calendar accounts returned.       *)
(***************************************************************************)
IsTimedTomorrow(ev) ==
  /\ IsSome(ev.start) /\ Val(ev.start).day = world.today + 1 /\ Val(ev.start).rfc3339

TimedTomorrow(source) ==
  IF world.calendar[source].status = "ok"
  THEN SelectSeq(world.calendar[source].events, IsTimedTomorrow)
  ELSE <<>>

Obtained == TimedTomorrow("personal") \o TimedTomorrow("work")

StartMinutes(ev) == 60 * Val(ev.start).hour + Val(ev.start).minute

\* C23: after getTomorrowCalendar FirstEvent is absent exactly when no timed
\* event for date+1 was obtained from either account; otherwise it is an
\* event of minimal start time over the personal account's events followed
\* by the work account's, the earliest in that order among equal times; with
\* one account failing it is the first event of the other account.
C23_TomorrowFirstEvent ==
  EveningEmitted =>
    LET first == out[1].Tomorrow.FirstEvent
    IN  /\ (first = None) <=> (Obtained = <<>>)
        /\ first # None =>
             \E i \in 1..Len(Obtained) :
               /\ Val(first) =
                    [Time |-> <<Val(Obtained[i].start).hour, Val(Obtained[i].start).minute>>,
                     Summary |-> Obtained[i].summary]
               /\ \A j \in 1..Len(Obtained) :
                    StartMinutes(Obtained[j]) >= StartMinutes(Obtained[i])
               /\ \A j \in 1..(i - 1) :
                    StartMinutes(Obtained[j]) > StartMinutes(Obtained[i])

\* Both accounts answered with an event at 7:30: the personal one is first.
C23_Witness ==
  /\ EveningEmitted /\ env.busy
  /\ world.calendar.personal.status = "ok" /\ world.calendar.work.status = "ok"
  /\ out[1].Tomorrow.FirstEvent = Some([Time |-> <<7, 30>>, Summary |-> <<"G", "Y", "M">>])

MatchesAt(summary, kw, offset) ==
  \A k \in 1..Len(kw) : ToLowerChar(summary[offset + k]) = kw[k]

NamesWorkout(ev) ==
  \E kw \in WorkoutKeywords :
    \E offset \in 0..(Len(ev.summary) - Len(kw)) : MatchesAt(ev.summary, kw, offset)

\* C24: after getTomorrowCalendar WorkoutScheduled is true exactly when some
\* fetched timed event for date+1, of either account and first or not, has a
\* summary containing one of the keywords, letter case ignored; it is false
\* when no events were fetched.
C24_TomorrowWorkoutFlag ==
  EveningEmitted =>
    /\ out[1].Tomorrow.WorkoutScheduled
         <=> (\E i \in 1..Len(Obtained) : NamesWorkout(Obtained[i]))
    /\ Obtained = <<>> => ~out[1].Tomorrow.WorkoutScheduled

\* The personal account failed: the first event is the work account's demo
\* and the workout is its last event, "PT Jesper".
C24_Witness ==
  /\ EveningEmitted /\ env.busy
  /\ world.calendar.personal.status # "ok" /\ world.calendar.work.status = "ok"
  /\ out[1].Tomorrow.FirstEvent = Some([Time |-> <<7, 30>>, Summary |-> <<"D", "e", "m", "o">>])
  /\ out[1].Tomorrow.WorkoutScheduled

(***************************************************************************)
(* getTrainingData called on a fresh report.                               *)
(***************************************************************************)
InitTraining ==
  /\ env \in TrainingChoices
  /\ b = NewMorningBriefing(world.today)
  /\ eb = NewEveningBriefing(world.today)
  /\ pc = "training_only"
  /\ calls = 0
  /\ out = <<>>

CallGetTrainingData ==
  /\ pc = "training_only" /\ calls = 0
  /\ b' = getTrainingData(b, world)
  /\ calls' = 1
  /\ UNCHANGED <<eb, env, pc, out>>

SpecTraining == InitTraining /\ [][CallGetTrainingData]_vars

\* C25: whenever the recent-workouts list is non-empty after getTrainingData,
\* LastWorkout is present and equals its first entry, and WeeklyCount does
\* not exceed the length of the list, also when the first workout returned
\* has an unparsable start time and later ones parse.
C25_LastWorkout ==
  (pc = "training_only" /\ calls = 1) =>
    /\ Len(b.Training.RecentWorkouts) > 0
         => b.Training.LastWorkout = Some(b.Training.RecentWorkouts[1])
    /\ b.Training.WeeklyCount <= Len(b.Training.RecentWorkouts)

\* C26: in every state of the morning pipeline isCurrentDay is true only if
\* the summary provider's sleep timestamp is the target date or the day
\* before it; isCurrentDay implies dataAvailable and dataAvailable implies
\* that total sleep hours are present, so classify is never reached with the
\* flags set and total hours absent.
C26_CurrentDayFlags ==
  env.mode = "morning" =>
    /\ b.Sleep.IsCurrentDay
         => /\ SummaryOk
            /\ IsSome(world.summary.stats.sleep_total)
            /\ Val(world.summary.stats.sleep_total).Timestamp
                 \in {world.today, world.today - 1}
    /\ b.Sleep.IsCurrentDay => b.Sleep.DataAvailable
    /\ b.Sleep.DataAvailable => IsSome(b.Sleep.TotalHours)
    /\ pc = "classify" => ~(SleepUsable /\ ~IsSome(b.Sleep.TotalHours))

\* Sleep stamped with yesterday's date counts as last night's when classify
\* is reached.
C26_Witness ==
  /\ env.mode = "morning" /\ pc = "classify"
  /\ b.Sleep.DataDate = Some(Today - 1)
  /\ b.Sleep.IsCurrentDay /\ b.Sleep.DataAvailable
  /\ b.Sleep.TotalHours = Some(6200)

\* C27: in every emitted evening report, whatever queries failed (the open
\* of the metrics store included), TotalBurnedKcal = BMRKcal + ActiveKcal,
\* DeficitOrSurplusKcal is ConsumedKcal - TotalBurnedKcal rounded to the
\* nearest whole kcal, and Status is one of deficit, surplus, maintenance and
\* agrees with DeficitOrSurplusKcal under the -50 / +50 thresholds.
C27_EnergyRecordConsistent ==
  EveningEmitted =>
    LET en == out[1].Energy
    IN  /\ en.TotalBurnedKcal = 10 * en.BMRKcal + en.ActiveKcal
        /\ en.DeficitOrSurplusKcal
             = RoundHalfUp(en.ConsumedKcal - en.TotalBurnedKcal, 10)
        /\ en.Status \in EnergyStatuses
        /\ (en.Status = "deficit") <=> (en.DeficitOrSurplusKcal < -50)
        /\ (en.Status = "surplus") <=> (en.DeficitOrSurplusKcal > 50)

\* C28: in every emitted evening report, whatever queries failed (the
\* protein query included), RemainingG = max(0, TargetG - ConsumedG) and
\* OnTrack = (ConsumedG >= 0.95 * TargetG).
C28_ProteinRecordConsistent ==
  EveningEmitted =>
    LET pr == out[1].Protein
    IN  /\ pr.RemainingG =
             (IF 10 * pr.TargetG - pr.ConsumedG > 0
              THEN 10 * pr.TargetG - pr.ConsumedG ELSE 0)
        /\ pr.OnTrack <=> (100 * pr.ConsumedG >= 95 * 10 * pr.TargetG)

ClassifyFrame ==
  /\ b'.Sleep = b.Sleep /\ b'.Vitals = b.Vitals /\ b'.Calendar = b.Calendar
  /\ b'.Meds = b.Meds /\ b'.Training = b.Training
  /\ b'.TargetDate = b.TargetDate /\ b'.Errors = b.Errors

\* C29: classify writes only the Classification sub-object: sleep, vitals,
\* calendar, meds, training, target date and warnings are the same before and
\* after it, and applying it a second time leaves the whole report unchanged.
C29_ClassifyFrame ==
  [][pc = "unit" => (ClassifyFrame /\ (calls >= 1 => b' = b))]_vars

\* classify has run twice on a report it classified GOOD / POOR / PACKED.
C29_Witness ==
  /\ pc = "unit" /\ calls = 2
  /\ b.Classification.SleepQuality = "GOOD"
  /\ b.Classification.RecoveryStatus = "POOR"
  /\ b.Classification.MorningLoad = "PACKED"

(***************************************************************************)
(* The morning bucket against the accounts' answers, in provider order.    *)
(***************************************************************************)
MorningOf(source) ==
  IF AccountOk(source)
  THEN LET sel == SelectSeq(ProviderEvents(source), IsMorningEvent)
       IN  [i \in 1..Len(sel) |->
             [Time |-> <<Val(sel[i].start).hour, Val(sel[i].start).minute>>,
              Summary |-> sel[i].summary, Source |-> source]]
  ELSE <<>>

CalendarFetched ==
  env.mode = "morning" /\ pc \in {"meds", "training", "classify", "output", "done"}

\* C30: after getCalendarData the morning bucket holds the personal account's
\* morning events in provider order followed by the work account's in
\* provider order (not sorted by time), MorningCount is the bucket's length,
\* and FirstEventTime is set exactly when the bucket is non-empty and is the
\* time of its first element, even when a later element starts earlier.
C30_MorningBucketOrder ==
  CalendarFetched =>
    LET bucket == b.Calendar.MorningEvents
    IN  /\ bucket = MorningOf("personal") \o MorningOf("work")
        /\ b.Calendar.MorningCount = Len(bucket)
        /\ IsSome(b.Calendar.FirstEventTime) <=> (Len(bucket) > 0)
        /\ Len(bucket) > 0 => b.Calendar.FirstEventTime = Some(bucket[1].Time)

\* The personal 9:30 event comes first and gives FirstEventTime although the
\* work account's 8:00 event follows it in the bucket.
C30_Witness ==
  /\ CalendarFetched /\ PersonalOk /\ WorkOk
  /\ Len(b.Calendar.MorningEvents) = 3
  /\ b.Calendar.MorningEvents[1].Time = <<9, 30>>
  /\ b.Calendar.MorningEvents[2].Time = <<8, 0>>
  /\ b.Calendar.FirstEventTime = Some(<<9, 30>>)
  /\ b.Calendar.MorningCount = 3

====
